---------------------------- MODULE Spec2Model ----------------------------
(***************************************************************************)
(* A model of the best-fit allocation method of libast vmalloc            *)
(* (src/src/lib/libast/vmalloc/vmbest.c).                                  *)
(*                                                                         *)
(* Memory is an array of machine words addressed in bytes.  A block is a   *)
(* two-word header (segment pointer, size word with the BUSY/PFREE/JUNK    *)
(* bits) followed by its body; a free block keeps LINK, LEFT, RIGHT in the *)
(* first three body words and SELF in the last one, exactly where the C    *)
(* code keeps them, so stale headers and overlaid pointers behave as in    *)
(* the program.  Every handler is one action; the functions of vmbest.c    *)
(* are operators from a region record S to a region record.                *)
(***************************************************************************)
EXTENDS Integers, Sequences, FiniteSets, TLC

(***************************************************************************)
(* Bounds of the model.                                                    *)
(***************************************************************************)
MaxOps == 4
MaxPages == 5
MaxOpsQ == 3
MaxOpsL == 3
MaxOpsS == 8
MaxAllocsS == 4
MaxFreesS == 2
MaxPagesT == 6
MaxOpsT == 10
MaxAllocsT == 6
MaxFreesT == 3
MaxAfterT == 1
MaxOpsR == 9
MaxAllocsR == 5
MaxMidR == 3
MaxOpsW == 3

(***************************************************************************)
(* Program constants.  vmhdr.h is not part of the sources at hand: the     *)
(* layout constants are those of a 64-bit build (8-byte pointers, 16-byte  *)
(* granule, one tiny list: no block the code makes is smaller than         *)
(* BODYSIZE, so none is below MAXTINY); S_CACHE is scaled down so that     *)
(* cache buckets, the catch-all bucket and the tree all occur in a small   *)
(* heap.                                                                   *)
(***************************************************************************)
COMPACT == 8
PTR == 8
ALIGN == 16
HEADSIZE == 16
BODYSIZE == 32
BLOCKSIZE == HEADSIZE + BODYSIZE
TINYSIZE == 16
S_TINY == 1
S_CACHE == 3
MAXTINY == S_TINY * ALIGN + TINYSIZE
MAXCACHE == S_CACHE * ALIGN + TINYSIZE
SEGHEAD == 16
BUSY == 1
PFREE == 2
JUNK == 4
BITS == 7
WORDBITS == 12
WORD == 2 ^ WORDBITS
NULL == 0

(* the page size, and the rounding granule of the memory-mapping          *)
(* discipline (64*1024 in the program), a whole number of pages            *)
PAGE == 64
MAPROUND == 4 * PAGE
(* address of the automatic variable `link' of bestsearch *)
LINKVAR == 16
(* first byte the provider can hand out, and one past the last *)
MEMBASE == 64
MEMTOP == MEMBASE + MaxPages * PAGE
MEMTOPT == MEMBASE + MaxPagesT * PAGE
NWORDS == (IF MEMTOP < MEMTOPT THEN MEMTOPT ELSE MEMTOP) \div PTR
(* the value a caller leaves in memory it is about to free *)
POISON == -1

(***************************************************************************)
(* Bit-tag primitives on a size word.                                      *)
(***************************************************************************)
ISBUSY(w) == w % 2 = 1
ISPFREE(w) == (w \div 2) % 2 = 1
ISJUNK(w) == (w \div 4) % 2 = 1
ISBITS(w) == w % 8 # 0
CLRBITS(w) == w - (w % 8)
BITSOF(w) == w % 8
SETBIT(w, b) == IF (w \div b) % 2 = 1 THEN w ELSE w + b
CLRBIT(w, b) == IF (w \div b) % 2 = 1 THEN w - b ELSE w

Wrap(x) == x % WORD
ROUND(x, y) == (Wrap(x + (y - 1)) \div y) * y
MULTIPLE(x, y) == IF x % y = 0 THEN x ELSE IF y % x = 0 THEN y ELSE Wrap(y * x)
INDEX(s) == (s - TINYSIZE) \div ALIGN
C_INDEX(s) == IF s < MAXCACHE THEN INDEX(s) ELSE S_CACHE
RoundReq_noMinimum(size) == ROUND(size, ALIGN)
RoundReq(size) == IF size <= BODYSIZE THEN BODYSIZE ELSE ROUND(size, ALIGN)

Min(a, b) == IF a < b THEN a ELSE b
Max(a, b) == IF a < b THEN b ELSE a

(***************************************************************************)
(* Word memory.  A read or write outside the mapped words is a fault.      *)
(***************************************************************************)
InMem(a) == a >= 0 /\ a \div PTR < NWORDS
rd(S, a) == IF InMem(a) THEN S.mem[a \div PTR] ELSE 0
wr(S, a, v) ==
    IF InMem(a) THEN [S EXCEPT !.mem[a \div PTR] = v] ELSE [S EXCEPT !.fault = TRUE]

SEG(S, b) == rd(S, b)
SIZE(S, b) == rd(S, b + PTR)
LINK(S, b) == rd(S, b + HEADSIZE)
LEFT(S, b) == rd(S, b + HEADSIZE + PTR)
RIGHT(S, b) == rd(S, b + HEADSIZE + 2 * PTR)
TLEFT(S, b) == rd(S, b)
DATA(b) == b + HEADSIZE
BLOCK(d) == d - HEADSIZE
SELFADDR(S, b) == DATA(b) + SIZE(S, b) - PTR
SELF(S, b) == rd(S, SELFADDR(S, b))
LAST(S, b) == rd(S, b - PTR)
NEXT(S, b) == DATA(b) + SIZE(S, b)

setSEG(S, b, v) == wr(S, b, v)
setSIZE(S, b, v) == wr(S, b + PTR, v)
setLINK(S, b, v) == wr(S, b + HEADSIZE, v)
setLEFT(S, b, v) == wr(S, b + HEADSIZE + PTR, v)
setRIGHT(S, b, v) == wr(S, b + HEADSIZE + 2 * PTR, v)
setTLEFT(S, b, v) == wr(S, b, v)
setSELF(S, b) == wr(S, SELFADDR(S, b), b)
SETLINK(S, b) == setRIGHT(S, b, b)
ISLINK(S, b) == RIGHT(S, b) = b
TINIEST(S, b) == SIZE(S, b) = TINYSIZE

(***************************************************************************)
(* Segments.  vd->seg is the head of S.seg; a segment is named by its base *)
(* address, where the C code keeps its Seg_t.                              *)
(***************************************************************************)
SEGBLOCK(sg) == sg.addr + SEGHEAD
SegOf(S, a) == { i \in 1..Len(S.seg) : S.seg[i].addr = a }
SegRec(S, a) == S.seg[CHOOSE i \in SegOf(S, a) : TRUE]
VMWILD(S, b) ==
    DATA(b) + SIZE(S, b) + HEADSIZE >= S.seg[1].baddr
SEGWILD(S, b) ==
    IF SegOf(S, SEG(S, b)) = {} THEN FALSE
    ELSE DATA(b) + SIZE(S, b) + HEADSIZE >= SegRec(S, SEG(S, b)).baddr

(* ASSERT(local ? (vd->lock == 1) : 1); SETLOCK(vd, local).  S.acq and     *)
(* S.rel count the acquisitions and releases of one operation, S.bare      *)
(* tells that an inner call ran while the counter was not 1.               *)
SETLOCK(S, local) ==
    IF local THEN [S EXCEPT !.bare = @ \/ S.lock # 1]
    ELSE [S EXCEPT !.lock = @ + 1, !.acq = @ + 1]
CLRLOCK(S, local) ==
    IF local THEN S ELSE [S EXCEPT !.lock = @ - 1, !.rel = @ + 1]


(***************************************************************************)
(* The size-word macros applied to the size word of block b, and the       *)
(* least element of a set of numbers.                                      *)
(***************************************************************************)
SETBUSY(S, b) == setSIZE(S, b, SETBIT(SIZE(S, b), BUSY))
SETJUNK(S, b) == setSIZE(S, b, SETBIT(SIZE(S, b), JUNK))
CLRJUNK(S, b) == setSIZE(S, b, CLRBIT(SIZE(S, b), JUNK))
SETPFREE(S, b) == setSIZE(S, b, SETBIT(SIZE(S, b), PFREE))
CLRPFREE(S, b) == setSIZE(S, b, CLRBIT(SIZE(S, b), PFREE))
Fault(S) == [S EXCEPT !.fault = TRUE]
(* the steps of an operation, in the order taken *)
Note(S, e, n) == [S EXCEPT !.ev = Append(@, [e |-> e, n |-> n])]
Least(s) == CHOOSE i \in s : \A j \in s : i <= j

(***************************************************************************)
(* UNLINK and REMOVE: take a block off a tiny list or an equal-size chain, *)
(* or hand it to the tree search.                                          *)
(***************************************************************************)
(* if((t = LEFT(b))) LINK(t) = LINK(b); else list[index] = LINK(b) *)
UnlinkLeft(S, b, i) ==
    IF LEFT(S, b) # NULL THEN setLINK(S, LEFT(S, b), LINK(S, b))
    ELSE IF i \in DOMAIN S.tiny THEN [S EXCEPT !.tiny[i] = LINK(S, b)]
    ELSE Fault(S)

UNLINK(S, b, i) ==
    UnlinkLeft(IF LINK(S, b) # NULL THEN setLEFT(S, LINK(S, b), LEFT(S, b)) ELSE S, b, i)

(***************************************************************************)
(* bestsearch: top-down splay search-and-delete.  The loop state is        *)
(* (root, l, r); l and r point into the tree or at the variable `link'.    *)
(***************************************************************************)
RROTATE(S, x, y) == setRIGHT(setLEFT(S, x, RIGHT(S, y)), y, x)
LROTATE(S, x, y) == setLEFT(setRIGHT(S, x, LEFT(S, y)), y, x)

Splayed(S, root, l, r) == [S |-> S, root |-> root, l |-> l, r |-> r]

RECURSIVE SplayLoop(_, _, _, _, _, _)
(* while((root = t)) *)
SplayNext(S, size, t, l, r, fuel) ==
    IF t = NULL THEN Splayed(S, NULL, l, r)
    ELSE IF fuel = 0 THEN Splayed(Fault(S), NULL, l, r)
    ELSE SplayLoop(S, size, t, l, r, fuel - 1)

(* size < SIZE(root) and t = LEFT(root) *)
SplayLeft(S, size, root, t, l, r, fuel) ==
    IF t = NULL THEN SplayNext(setLEFT(S, r, root), size, NULL, l, root, fuel)
    ELSE IF size = SIZE(S, t) THEN Splayed(RROTATE(S, root, t), t, l, r)
    ELSE IF size < SIZE(S, t) THEN
        \* RROTATE(root,t); t = LEFT(root); RLINK(r,root)
        SplayNext(setLEFT(RROTATE(S, root, t), r, t), size,
                  LEFT(RROTATE(S, root, t), t), l, t, fuel)
    ELSE
        \* LLINK(l,t); t = RIGHT(t); RLINK(r,root)
        SplayNext(setLEFT(setRIGHT(S, l, t), r, root), size,
                  RIGHT(setRIGHT(S, l, t), t), t, root, fuel)

(* size > SIZE(root) and t = RIGHT(root) *)
SplayRight(S, size, root, t, l, r, fuel) ==
    IF t = NULL THEN SplayNext(setRIGHT(S, l, root), size, NULL, root, r, fuel)
    ELSE IF size = SIZE(S, t) THEN Splayed(LROTATE(S, root, t), t, l, r)
    ELSE IF size > SIZE(S, t) THEN
        \* LROTATE(root,t); t = RIGHT(root); LLINK(l,root)
        SplayNext(setRIGHT(LROTATE(S, root, t), l, t), size,
                  RIGHT(LROTATE(S, root, t), t), t, r, fuel)
    ELSE
        \* RLINK(r,t); t = LEFT(t); LLINK(l,root)
        SplayNext(setRIGHT(setLEFT(S, r, t), l, root), size,
                  LEFT(setLEFT(S, r, t), t), root, t, fuel)

SplayLoop(S, size, root, l, r, fuel) ==
    IF size = SIZE(S, root) THEN Splayed(S, root, l, r)
    ELSE IF size < SIZE(S, root) THEN SplayLeft(S, size, root, LEFT(S, root), l, r, fuel)
    ELSE SplayRight(S, size, root, RIGHT(S, root), l, r, fuel)

(* while((t = LEFT(root))) RROTATE(root,t); *)
RECURSIVE LeftSpine(_, _, _)
LeftSpine(S, root, fuel) ==
    IF LEFT(S, root) = NULL THEN [S |-> S, root |-> root]
    ELSE IF fuel = 0 THEN [S |-> Fault(S), root |-> root]
    ELSE LeftSpine(RROTATE(S, root, LEFT(S, root)), LEFT(S, root), fuel - 1)

(* the tiniest-block branch of bestsearch: unlink, then find the segment *)
TiniestSeg(S, root, hit) ==
    IF Len(S.seg) = 1 THEN setSEG(S, root, S.seg[1].addr)
    ELSE IF hit = {} THEN Fault(S)
    ELSE setSEG(S, root, S.seg[Least(hit)].addr)

TiniestLeft(S, root, l, r) ==
    IF l # NULL THEN setLINK(S, l, r) ELSE [S EXCEPT !.tiny[0] = r]

TiniestUnlink(S, root) ==
    TiniestSeg(
        TiniestLeft(IF LINK(S, root) # NULL
                    THEN setTLEFT(S, LINK(S, root), TLEFT(S, root)) ELSE S,
                    root, TLEFT(S, root), LINK(S, root)),
        root,
        { i \in 1..Len(S.seg) : root > S.seg[i].addr /\ root < S.seg[i].baddr })


ClearLink(S) == setRIGHT(setLEFT(S, LINKVAR, NULL), LINKVAR, NULL)

(* found it, now isolate it: LEFT(r) = RIGHT(root) *)
IsolateFound(S, lp) == [S |-> setLEFT(S, lp.r, RIGHT(S, lp.root)), root |-> lp.root]

(* LEFT(&link) = RIGHT(root), root being the least one of the right tree *)
GrabbedLeast(sp) ==
    [S |-> setLEFT(sp.S, LINKVAR, RIGHT(sp.S, sp.root)), root |-> sp.root]

(* grab the least one from the right tree *)
GrabLeast_none(S) == [S |-> S, root |-> NULL]
GrabLeast(S) ==
    IF LEFT(S, LINKVAR) = NULL THEN [S |-> S, root |-> NULL]
    ELSE GrabbedLeast(LeftSpine(S, LEFT(S, LINKVAR), NWORDS))

Isolate(lp) ==
    IF lp.root # NULL
    THEN IsolateFound(setRIGHT(lp.S, lp.l, LEFT(lp.S, lp.root)), lp)
    ELSE GrabLeast(setRIGHT(setLEFT(lp.S, lp.r, NULL), lp.l, NULL))

(* vd->root = r; the automatic variable dies with the call *)
SetRoot(S, r) == ClearLink([S EXCEPT !.root = r])

(* graft left tree to right tree *)
Grafted(sp) == SetRoot(setLEFT(sp.S, sp.root, RIGHT(sp.S, LINKVAR)), sp.root)

Reroot(S, root) ==
    IF root # NULL /\ LINK(S, root) # NULL
    THEN \* head of a link list, use next one for root
         SetRoot(setRIGHT(setLEFT(S, LINK(S, root), RIGHT(S, LINKVAR)),
                          LINK(S, root), LEFT(S, LINKVAR)),
                 LINK(S, root))
    ELSE IF LEFT(S, LINKVAR) = NULL THEN SetRoot(S, RIGHT(S, LINKVAR))
    ELSE Grafted(LeftSpine(S, LEFT(S, LINKVAR), NWORDS))

(* a wanted block must be the one that was found *)
Wanted(S, root, wanted) ==
    [S |-> IF wanted # NULL /\ wanted # root THEN Fault(S) ELSE S, root |-> root]

Searched(iso, wanted) == Wanted(Reroot(iso.S, iso.root), iso.root, wanted)

bestsearch(S, size, wanted) ==
    IF wanted # NULL /\ size = TINYSIZE
    THEN [S |-> TiniestUnlink(S, wanted), root |-> wanted]
    ELSE Searched(Isolate(IF S.root = NULL
                          THEN Splayed(ClearLink(S), NULL, LINKVAR, LINKVAR)
                          ELSE SplayLoop(ClearLink(S), size, S.root, LINKVAR, LINKVAR,
                                         NWORDS)),
                  wanted)

REMOVE(S, b, i) ==
    IF ~TINIEST(S, b) /\ ISLINK(S, b) THEN UNLINK(S, b, i)
    ELSE bestsearch(S, SIZE(S, b), b).S

(***************************************************************************)
(* bestreclaim: move the delayed-free blocks of cache[S_CACHE..c] to the   *)
(* wilderness, the tiny lists or the tree, coalescing on the way.          *)
(***************************************************************************)
(* for(;;) forward merge, np being the block after fp and s its size word *)
RECURSIVE ForwardMerge(_, _, _, _, _)
ForwardMerge_none(S, fp, size, c, fuel) == [S |-> S, size |-> size, c |-> c]
MergeWith_keepC(S, fp, size, c, fuel, np, s) ==
    IF fuel = 0 \/ ~InMem(np) THEN [S |-> Fault(S), size |-> size, c |-> c]
    ELSE IF ~ISBUSY(s) THEN
        ForwardMerge(IF np = S.wild THEN [S EXCEPT !.wild = NULL]
                     ELSE REMOVE(S, np, INDEX(s)),
                     fp, size + s + HEADSIZE, c, fuel - 1)
    ELSE IF ISJUNK(s) THEN
        ForwardMerge(setSIZE(S, np, 0), fp, size + CLRBITS(s) + HEADSIZE, c, fuel - 1)
    ELSE [S |-> S, size |-> size, c |-> c]
MergeWith(S, fp, size, c, fuel, np, s) ==
    IF fuel = 0 \/ ~InMem(np) THEN [S |-> Fault(S), size |-> size, c |-> c]
    ELSE IF ~ISBUSY(s) THEN
        ForwardMerge(IF np = S.wild THEN [S EXCEPT !.wild = NULL]
                     ELSE REMOVE(S, np, INDEX(s)),
                     fp, size + s + HEADSIZE, c, fuel - 1)
    ELSE IF ISJUNK(s) THEN
        \* reclaim any touched junk list
        ForwardMerge(setSIZE(S, np, 0), fp, size + CLRBITS(s) + HEADSIZE,
                     IF C_INDEX(s) < c THEN C_INDEX(s) ELSE c, fuel - 1)
    ELSE [S |-> S, size |-> size, c |-> c]

ForwardMerge(S, fp, size, c, fuel) ==
    MergeWith(S, fp, size, c, fuel, fp + size + HEADSIZE, SIZE(S, fp + size + HEADSIZE))

(* s == size: fp joins the chain of np *)
LinkEqual_drop(S, np, fp) == S
LinkEqual(S, np, fp) ==
    SETLINK(setLEFT(setLINK(IF LINK(S, np) # NULL
                            THEN setLEFT(setLINK(S, fp, LINK(S, np)), LINK(S, np), fp)
                            ELSE S,
                            np, fp),
                    fp, np),
            fp)

(* while(1) leaf insertion *)
RECURSIVE LeafInsert(_, _, _, _, _)
LeafInsert_flipped(S, np, fp, size, fuel) ==
    IF fuel = 0 THEN Fault(S)
    ELSE IF SIZE(S, np) < size THEN
        IF LEFT(S, np) # NULL THEN LeafInsert(S, LEFT(S, np), fp, size, fuel - 1)
        ELSE setLEFT(S, np, fp)
    ELSE IF SIZE(S, np) > size THEN
        IF RIGHT(S, np) # NULL THEN LeafInsert(S, RIGHT(S, np), fp, size, fuel - 1)
        ELSE setRIGHT(S, np, fp)
    ELSE LinkEqual(S, np, fp)
LeafInsert(S, np, fp, size, fuel) ==
    IF fuel = 0 THEN Fault(S)
    ELSE IF SIZE(S, np) > size THEN
        IF LEFT(S, np) # NULL THEN LeafInsert(S, LEFT(S, np), fp, size, fuel - 1)
        ELSE setLEFT(S, np, fp)
    ELSE IF SIZE(S, np) < size THEN
        IF RIGHT(S, np) # NULL THEN LeafInsert(S, RIGHT(S, np), fp, size, fuel - 1)
        ELSE setRIGHT(S, np, fp)
    ELSE LinkEqual(S, np, fp)

(* tiny block goes to tiny list: LINK(fp) is set, np is the old head *)
TinyPush(S, fp, s, np) ==
    [(IF s = 0
      THEN setTLEFT(IF np # NULL THEN setTLEFT(S, np, fp) ELSE S, fp, NULL)
      ELSE SETLINK(setLEFT(IF np # NULL THEN setLEFT(S, np, fp) ELSE S, fp, NULL), fp))
        EXCEPT !.tiny[s] = fp]

TinyInsert(S, fp, size) ==
    TinyPush(setLINK(S, fp, S.tiny[INDEX(size)]), fp, INDEX(size), S.tiny[INDEX(size)])

TreeRoot(S, fp) ==
    IF S.root = NULL THEN [S EXCEPT !.root = fp]
    ELSE LeafInsert(S, S.root, fp, SIZE(S, fp), NWORDS)

TreeInsert_lost(S, fp) == S
TreeInsert(S, fp) ==
    TreeRoot(setLINK(setRIGHT(setLEFT(S, fp, NULL), fp, NULL), fp, NULL), fp)

(* the merged block fp, np being the block after it: keep it for the      *)
(* caller, or put it where free blocks of its kind live                   *)
(* vd->wild = b, noting a store over a different block still held there *)
setWild(S, b) ==
    [S EXCEPT !.wild = b, !.wput = @ + 1, !.clob = @ \/ S.wild \notin {NULL, b}]

Rehome_blind(S, fp, np, size, c, wanted, saw) ==
    IF DATA(np) >= S.seg[1].baddr
    THEN [S |-> setWild(S, fp), c |-> c, saw |-> saw]
    ELSE IF size < MAXTINY
         THEN [S |-> TinyInsert(S, fp, size), c |-> c, saw |-> saw]
    ELSE [S |-> TreeInsert(S, fp), c |-> c, saw |-> saw]
Rehome(S, fp, np, size, c, wanted, saw) ==
    IF fp = wanted THEN [S |-> [S EXCEPT !.met = @ + 1], c |-> c, saw |-> TRUE]
    ELSE IF DATA(np) >= S.seg[1].baddr
         THEN [S |-> setWild(S, fp), c |-> c, saw |-> saw]
    ELSE IF size < MAXTINY
         THEN [S |-> TinyInsert(S, fp, size), c |-> c, saw |-> saw]
    ELSE [S |-> TreeInsert(S, fp), c |-> c, saw |-> saw]

(* tell next block that this one is free *)
TellNext_noSelf(S, fp, size, c, wanted, saw) ==
    Rehome(SETPFREE(S, NEXT(S, fp)), fp, NEXT(S, fp), size, c, wanted, saw)
TellNext_noPfree(S, fp, size, c, wanted, saw) ==
    Rehome(setSELF(S, fp), fp, NEXT(S, fp), size, c, wanted, saw)
TellNext(S, fp, size, c, wanted, saw) ==
    Rehome(setSELF(SETPFREE(S, NEXT(S, fp)), fp), fp, NEXT(S, fp), size, c, wanted, saw)

(* SIZE(fp) = size *)
Merged(fm, fp, wanted, saw) ==
    TellNext(setSIZE(fm.S, fp, fm.size), fp, fm.size, fm.c, wanted, saw)

(* backward merge: lp = LAST(fp) is taken out of its home and absorbs fp *)
BackwardMerge(S, fp, lp) ==
    [S |-> REMOVE(S, lp, INDEX(SIZE(S, lp))), fp |-> lp,
     size |-> CLRBITS(SIZE(S, fp)) + SIZE(S, lp) + HEADSIZE]

MergeFrom(bm, c, wanted, saw) ==
    Merged(ForwardMerge(bm.S, bm.fp, bm.size, c, NWORDS), bm.fp, wanted, saw)

(* one block of a cache list: the body of the while((fp = list)) loop *)
ReclaimBlock(S, fp, c, wanted, saw) ==
    IF ~ISJUNK(SIZE(S, fp)) THEN [S |-> S, c |-> c, saw |-> saw]
    ELSE MergeFrom(IF ISPFREE(SIZE(S, fp)) THEN BackwardMerge(S, fp, LAST(S, fp))
                   ELSE [S |-> S, fp |-> fp, size |-> CLRBITS(SIZE(S, fp))],
                   c, wanted, saw)

RECURSIVE ReclaimList(_, _, _, _, _, _)
ReclaimRest(r, list, wanted, fuel) ==
    ReclaimList(r.S, list, r.c, wanted, r.saw, fuel - 1)

ReclaimList(S, list, c, wanted, saw, fuel) ==
    IF list = NULL THEN [S |-> S, c |-> c, saw |-> saw]
    ELSE IF fuel = 0 \/ ~InMem(list) THEN [S |-> Fault(S), c |-> c, saw |-> saw]
    ELSE ReclaimRest(ReclaimBlock(S, list, c, wanted, saw), LINK(S, list), wanted, fuel)

RECURSIVE ReclaimFrom(_, _, _, _, _)
ReclaimBelow(r, n, wanted) == ReclaimFrom(r.S, n - 1, r.c, wanted, r.saw)

ReclaimFrom(S, n, c, wanted, saw) ==
    IF n < c THEN [S |-> S, saw |-> saw]
    ELSE ReclaimBelow(ReclaimList([S EXCEPT !.cache[n] = NULL, !.scan[n] = @ + 1],
                                  S.cache[n], c,
                                  wanted, saw, NWORDS),
                      n, wanted)

Reclaimed(r) == [S |-> IF r.saw THEN r.S ELSE Fault(r.S), saw |-> r.saw]

bestreclaim(S, wanted, c) ==
    Reclaimed(ReclaimFrom(IF S.free # NULL
                          THEN [setLINK(Note(S, "reclaim", c), S.free, S.cache[S_CACHE])
                                   EXCEPT !.cache[S_CACHE] = S.free, !.free = NULL]
                          ELSE Note(S, "reclaim", c),
                          S_CACHE, c, wanted, wanted = NULL))

(***************************************************************************)
(* The raw-memory provider (getmemory and its backends).  prov says which  *)
(* kinds of request this provider grants: new (csize = 0), grow and shrink *)
(* (csize > 0, nsize > 0; the mmap and malloc backends refuse both) and    *)
(* release (nsize = 0).  A fresh range is the lowest free page-aligned one.*)
(* S.refused collects the kinds of request refused during an operation.    *)
(***************************************************************************)
Overlaps(S, lo, hi, except) ==
    \E i \in 1..Len(S.seg) :
        /\ S.seg[i].addr # except
        /\ lo < S.seg[i].addr + S.seg[i].extent
        /\ S.seg[i].addr < hi

FreeRanges(S, nsize) ==
    { a \in MEMBASE..S.top :
        /\ (a - MEMBASE) % PAGE = 0
        /\ a + nsize <= S.top
        /\ ~Overlaps(S, a, a + nsize, NULL) }

Refuse(S, kind) == [S EXCEPT !.refused = @ \cup {kind}]

(* memoryf(vm, NULL, 0, nsize, disc) *)
getmemoryNew(S, nsize, prov) ==
    IF ~prov.new \/ nsize <= 0 \/ FreeRanges(S, nsize) = {}
    THEN [S |-> Refuse(S, "new"), addr |-> NULL]
    ELSE [S |-> S, addr |-> Least(FreeRanges(S, nsize))]

(* memoryf(vm, caddr, csize, nsize, disc) with nsize > csize > 0 *)
getmemoryGrow(S, sg, nsize, prov) ==
    IF prov.grow /\ sg.addr + nsize <= S.top
       /\ ~Overlaps(S, sg.addr + sg.extent, sg.addr + nsize, sg.addr)
    THEN [S |-> S, addr |-> sg.addr]
    ELSE [S |-> Refuse(S, "grow"), addr |-> NULL]

(* released words read as zero when they are mapped again *)
Unmap(S, lo, hi) ==
    [S EXCEPT !.mem = [w \in DOMAIN S.mem |->
                          IF w * PTR >= lo /\ w * PTR < hi THEN 0 ELSE S.mem[w]]]

SegIndex(S, a) == CHOOSE i \in 1..Len(S.seg) : S.seg[i].addr = a
Without(q, i) == [j \in 1..(Len(q) - 1) |-> IF j < i THEN q[j] ELSE q[j + 1]]

(***************************************************************************)
(* _Vmtruncate(vm, seg, size, 0): give the tail of a segment, or all of    *)
(* it, back to the provider.  Returns the number of bytes given back.      *)
(***************************************************************************)
TruncRound(S, size) == (((size \div S.round) * S.round) \div S.incr) * S.incr

TruncLess(S, size, less) ==
    IF less > 0 /\ size > less /\ size - less < BLOCKSIZE
    THEN (IF less <= S.incr THEN 0 ELSE less - S.incr) ELSE less

ShrinkSeg(S, i, less) ==
    [S EXCEPT !.seg[i] = [@ EXCEPT !.extent = @ - less, !.size = @ - less,
                                   !.baddr = @ - less]]

(* the sentinel block that ends the shortened segment *)
TruncSentinel(S, a, baddr) == setSIZE(setSEG(S, BLOCK(baddr), a), BLOCK(baddr), BUSY)

TruncTail(S, i, sg, less, prov) ==
    IF less <= 0 THEN [S |-> S, ret |-> 0]
    ELSE IF ~prov.shrink THEN [S |-> Refuse(S, "shrink"), ret |-> 0]
    ELSE [S |-> TruncSentinel(Unmap(ShrinkSeg(S, i, less),
                                    sg.addr + sg.extent - less, sg.addr + sg.extent),
                              sg.addr, sg.baddr - less),
          ret |-> less]

ReleaseSeg(S, i, sg, size, prov) ==
    IF ~prov.release THEN [S |-> Refuse(S, "release"), ret |-> 0]
    ELSE [S |-> Unmap([S EXCEPT !.seg = Without(S.seg, i)], sg.addr, sg.addr + sg.extent),
          ret |-> size]

TruncSeg(S, i, sg, size, prov) ==
    IF size < sg.size THEN TruncTail(S, i, sg, TruncLess(S, size, TruncRound(S, size)), prov)
    ELSE ReleaseSeg(S, i, sg, size, prov)

vmtruncate(S, a, size, prov) == TruncSeg(S, SegIndex(S, a), S.seg[SegIndex(S, a)], size, prov)

(***************************************************************************)
(* bestcompact                                                             *)
(***************************************************************************)
PushCache(S, b, ci) == [setLINK(S, b, S.cache[ci]) EXCEPT !.cache[ci] = b]

(* SIZE(bp) |= BUSY|JUNK; LINK(bp) = CACHE(vd)[C_INDEX(SIZE(bp))]; ... *)
JunkSize(s) == SETBIT(SETBIT(s, BUSY), JUNK)
ToCache(S, bp) ==
    PushCache(setSIZE(S, bp, JunkSize(SIZE(S, bp))), bp, C_INDEX(JunkSize(SIZE(S, bp))))

(* after _Vmtruncate: what is left of bp goes to the cache *)
Truncated(tr, a, bp, segsize) ==
    IF tr.ret > 0 /\ tr.ret >= segsize THEN tr.S
    ELSE IF tr.ret <= 0 THEN ToCache(tr.S, bp)
    ELSE IF SegRec(tr.S, a).baddr - bp - HEADSIZE > 0
    THEN ToCache(setSIZE(tr.S, bp, (SegRec(tr.S, a).baddr - bp - HEADSIZE) - HEADSIZE), bp)
    ELSE tr.S

Truncate(S, a, bp, size, segsize, prov) ==
    Truncated(vmtruncate(CLRPFREE(S, NEXT(S, bp)), a,
                         IF size < segsize THEN size + HEADSIZE ELSE size, prov),
              a, bp, segsize)

(* the wilderness is kept while it is small; any other block leaves its home *)
CompactLast(S, a, bp, size, segsize, prov) ==
    IF bp = S.wild /\ (size <= COMPACT * S.incr \/ size <= COMPACT * S.pool) THEN S
    ELSE Truncate(IF bp = S.wild THEN [S EXCEPT !.wild = NULL, !.pool = 0]
                  ELSE REMOVE(S, bp, INDEX(size)),
                  a, bp, size, segsize, prov)

(* if(size > COMPACT*vd->incr && vd->incr > round) vd->incr /= 2 *)
Halved(S, bp, size) ==
    IF bp = S.wild /\ size > COMPACT * S.incr /\ S.incr > S.round
    THEN [S EXCEPT !.incr = @ \div 2] ELSE S

CompactFree(S, a, sg, bp, prov) ==
    CompactLast(Halved(S, bp, SIZE(S, bp)), a, bp, SIZE(S, bp), sg.size, prov)

CompactAt(S, a, sg, prov) ==
    IF ~ISPFREE(SIZE(S, BLOCK(sg.baddr))) THEN S
    ELSE CompactFree(S, a, sg, LAST(S, BLOCK(sg.baddr)), prov)

CompactSeg(S, a, prov) == CompactAt(S, a, SegRec(S, a), prov)

RECURSIVE CompactSegs(_, _, _)
CompactSegs(S, as, prov) ==
    IF as = << >> THEN S
    ELSE CompactSegs(CompactSeg(S, Head(as), prov), Tail(as), prov)

CompactAll(S, local, prov) ==
    [S |-> CLRLOCK(CompactSegs(S, [i \in 1..Len(S.seg) |-> S.seg[i].addr], prov), local),
     ret |-> 0]

bestcompact_reclaimLast(S, local, prov) ==
    [S |-> bestreclaim(CompactAll(bestreclaim(SETLOCK(S, local), NULL, 0).S, local, prov).S,
                       NULL, 0).S,
     ret |-> 0]
bestcompact(S, local, prov) == CompactAll(bestreclaim(SETLOCK(S, local), NULL, 0).S, local, prov)

(***************************************************************************)
(* _Vmextend(vm, size, bestsearch): get a new segment from the provider    *)
(* and return its one block.  Segments are kept in descending address      *)
(* order, so vd->seg is the one whose last block may be the wilderness; a  *)
(* wilderness left behind in an older segment is sent to the cache.        *)
(***************************************************************************)
Above(q, a) == Cardinality({ j \in 1..Len(q) : q[j].addr > a })

InsertSeg(q, sg) ==
    [j \in 1..(Len(q) + 1) |->
        IF j <= Above(q, sg.addr) THEN q[j]
        ELSE IF j = Above(q, sg.addr) + 1 THEN sg ELSE q[j - 1]]

NewSeg(a, ext) ==
    [addr |-> a, extent |-> ext, baddr |-> a + ext, size |-> ext - SEGHEAD - 2 * HEADSIZE]

Sentinel(S, sg) ==
    setSIZE(setSEG(S, NEXT(S, SEGBLOCK(sg)), sg.addr), NEXT(S, SEGBLOCK(sg)), BUSY)

(* the one block of the new segment and the sentinel after it *)
FirstBlock(S, sg) ==
    Sentinel(setSIZE(setSEG(S, SEGBLOCK(sg), sg.addr), SEGBLOCK(sg), sg.size), sg)

(* see if the wild block is still wild *)
OldWild(S) ==
    IF S.wild # NULL /\ SEG(S, S.wild) # S.seg[1].addr
    THEN [ToCache(CLRPFREE(S, NEXT(S, S.wild)), S.wild) EXCEPT !.wild = NULL]
    ELSE S

AddSeg(S, sg) ==
    [S |-> OldWild(FirstBlock([S EXCEPT !.seg = InsertSeg(@, sg)], sg)), tp |-> SEGBLOCK(sg)]

Extended(got, ext) ==
    IF got.addr = NULL THEN [S |-> got.S, tp |-> NULL]
    ELSE AddSeg(got.S, NewSeg(got.addr, ext))

ExtendBy(S, ext, prov) ==
    Extended(getmemoryNew(IF ext > 2 * S.incr /\ S.round < S.incr
                          THEN [S EXCEPT !.incr = 2 * @] ELSE S,
                          ext, prov),
             ext)

ExtendRound(S, size, s, prov) ==
    IF s <= size \/ ROUND(s, S.incr) < s THEN [S |-> S, tp |-> NULL]
    ELSE ExtendBy(S, ROUND(s, S.incr), prov)

vmextend(S, size, prov) ==
    ExtendRound(IF S.incr <= 0 THEN [S EXCEPT !.incr = S.round] ELSE S,
                size, Wrap(size + SEGHEAD + 2 * HEADSIZE), prov)

(***************************************************************************)
(* bestalloc                                                               *)
(***************************************************************************)
copySEG(S, to, from) == setSEG(S, to, SEG(S, from))

(* the last free piece is big enough to split: np is the remainder *)
SplitLastFree(S, tp, size, s) ==
    setSIZE([setSIZE(copySEG(setSIZE(S, tp, size), DATA(tp) + size, tp),
                     DATA(tp) + size,
                     JunkSize(CLRBITS(s) - (size + HEADSIZE)))
                EXCEPT !.free = DATA(tp) + size],
            tp, size + BITSOF(s))

(* reuse last free piece if appropriate: the block fits *)
AllocLastFree(S, tp, size) ==
    CLRJUNK(IF SIZE(S, tp) >= Wrap(size + HEADSIZE + BODYSIZE)
            THEN SplitLastFree(S, tp, size, SIZE(S, tp)) ELSE S,
            tp)

(* for(n = S_CACHE; n >= 0; --n): best-fit except for coalescing *)
RECURSIVE AllocLoop(_, _, _)
AllocFound_skip(bs, size, n) == AllocLoop(bs.S, size, n - 1)
AllocFound(bs, size, n) ==
    IF bs.root # NULL THEN [S |-> [bs.S EXCEPT !.via = "tree"], tp |-> bs.root]
    ELSE AllocLoop(bs.S, size, n - 1)

AllocSearch(S, size, n) ==
    IF S.root = NULL THEN AllocLoop(Note(S, "empty", n), size, n - 1)
    ELSE AllocFound(bestsearch(Note(S, "search", n), size, NULL), size, n)

AllocLoop(S, size, n) ==
    IF n < 0 THEN [S |-> S, tp |-> NULL]
    ELSE AllocSearch(bestreclaim(S, NULL, n).S, size, n)

(* the remainder np ends the top segment: it is the new wilderness *)
MakeWild(S, np) == setWild(SETPFREE(setSELF(S, np), NEXT(S, np)), np)

Leftover_always(S, np) == MakeWild(setSIZE(S, np, CLRBITS(SIZE(S, np))), np)
Leftover(S, np) ==
    IF VMWILD(S, np) THEN MakeWild(setSIZE(S, np, CLRBITS(SIZE(S, np))), np)
    ELSE [S EXCEPT !.free = np]

(* SIZE(tp) = size; np = NEXT(tp); SEG(np) = SEG(tp); SIZE(np) = ... *)
SplitBlock_keepSize(S, tp, size, s) ==
    Leftover(setSIZE(copySEG(S, DATA(tp) + size, tp),
                     DATA(tp) + size, JunkSize(s - HEADSIZE)),
             DATA(tp) + size)

SplitBlock(S, tp, size, s) ==
    Leftover(setSIZE(copySEG(setSIZE(S, tp, size), DATA(tp) + size, tp),
                     DATA(tp) + size, JunkSize(s - HEADSIZE)),
             DATA(tp) + size)

GotSplit(S, tp, size) ==
    SETBUSY(IF SIZE(S, tp) - size >= HEADSIZE + BODYSIZE
            THEN SplitBlock(S, tp, size, SIZE(S, tp) - size) ELSE S,
            tp)

(* got_block: tell next block that we are no longer a free block *)
GotBlock(S, tp, size) == GotSplit(CLRPFREE(S, NEXT(S, tp)), tp, size)

(* done: *)
Done_keepLock(S, tp, local) == [S |-> S, ret |-> IF tp # NULL THEN DATA(tp) ELSE NULL]
Done(S, tp, local) ==
    [S |-> CLRLOCK(S, local), ret |-> IF tp # NULL THEN DATA(tp) ELSE NULL]

AllocGot(r, size, local) ==
    Done(IF r.tp # NULL THEN GotBlock(r.S, r.tp, size) ELSE r.S, r.tp, local)

(* the tree had nothing: the wilderness, or else a new segment *)
RECURSIVE TreeHas(_, _, _, _)
TreeHas(S, r, size, fuel) ==
    IF r = NULL \/ fuel = 0 \/ ~InMem(r) THEN FALSE
    ELSE \/ SIZE(S, r) >= size
         \/ TreeHas(S, LEFT(S, r), size, fuel - 1)
         \/ TreeHas(S, RIGHT(S, r), size, fuel - 1)

(* the step e of bestalloc, noting whether the tree or the wilderness has  *)
(* a block of the size when it is taken                                    *)
Asking(S, size, e) ==
    [Note(S, e, 0) EXCEPT !.rich = @ \/ (S.wild # NULL /\ SIZE(S, S.wild) >= size)
                                     \/ TreeHas(S, S.root, size, NWORDS)]

(* need to extend the arena *)
AllocExtend(S, size, prov) ==
    vmextend(Asking([bestcompact(Asking(S, size, "compact"), TRUE, prov).S
                        EXCEPT !.via = "extend"],
                    size, "extend"),
             size, prov)

AllocFresh_hasty(S, size, prov) == AllocExtend(S, size, prov)
AllocFresh(S, size, prov) ==
    IF S.wild # NULL /\ SIZE(S, S.wild) >= size
    THEN [S |-> [S EXCEPT !.wild = NULL, !.via = "wild"], tp |-> S.wild]
    ELSE AllocExtend(Note(S, "nowild", 0), size, prov)

AllocBlock(lp, size, prov) ==
    IF lp.tp # NULL THEN lp ELSE AllocFresh(lp.S, size, prov)

AllocFit(S, tp, size) ==
    tp # NULL /\ SIZE(S, tp) >= size /\ SIZE(S, tp) < Wrap(2 * size)

AllocSized(S, size, local, prov) ==
    IF AllocFit(S, S.free, size)
    THEN Done(AllocLastFree([S EXCEPT !.free = NULL, !.via = "free"], S.free, size),
              S.free, local)
    ELSE AllocGot(AllocBlock(AllocLoop(IF S.free # NULL
                                       THEN PushCache(Note([S EXCEPT !.free = NULL],
                                                           "last", 0),
                                                      S.free, S_CACHE)
                                       ELSE S,
                                       size, S_CACHE),
                             size, prov),
                  size, local)

bestalloc_unlocked(S, orgsize, local, prov) ==
    AllocSized(S, RoundReq(orgsize), local, prov)
bestalloc(S, orgsize, local, prov) ==
    AllocSized(Note(SETLOCK(S, local), "alloc", 0), RoundReq(orgsize), local, prov)

(***************************************************************************)
(* bestaddr and bestsize                                                   *)
(***************************************************************************)
RECURSIVE AddrWalk(_, _, _, _, _)
AddrWalk_junkToo(S, b, endb, addr, fuel) ==
    IF b >= endb \/ fuel = 0 THEN -1
    ELSE IF addr >= DATA(b) /\ addr < DATA(b) + CLRBITS(SIZE(S, b))
         THEN (IF ~ISBUSY(SIZE(S, b)) THEN -1 ELSE addr - DATA(b))
    ELSE AddrWalk(S, DATA(b) + CLRBITS(SIZE(S, b)), endb, addr, fuel - 1)

(* while(b < endb) *)
AddrWalk(S, b, endb, addr, fuel) ==
    IF b >= endb \/ fuel = 0 THEN -1
    ELSE IF addr >= DATA(b) /\ addr < DATA(b) + CLRBITS(SIZE(S, b))
         THEN (IF ISJUNK(SIZE(S, b)) \/ ~ISBUSY(SIZE(S, b)) THEN -1 ELSE addr - DATA(b))
    ELSE AddrWalk(S, DATA(b) + CLRBITS(SIZE(S, b)), endb, addr, fuel - 1)

(* the segments whose blocks may contain addr; the loop stops at the first *)
AddrSegs(S, addr) ==
    { i \in 1..Len(S.seg) :
        addr > SEGBLOCK(S.seg[i]) /\ addr < S.seg[i].baddr - HEADSIZE }

AddrIn(S, addr, local, in) ==
    IF in = {} THEN -1
    ELSE IF local
    THEN (IF SEG(S, BLOCK(addr)) = S.seg[Least(in)].addr
             /\ ISBUSY(SIZE(S, BLOCK(addr))) /\ ~ISJUNK(SIZE(S, BLOCK(addr)))
          THEN 0 ELSE -1)
    ELSE AddrWalk(S, SEGBLOCK(S.seg[Least(in)]), S.seg[Least(in)].baddr - HEADSIZE,
                  addr, NWORDS)

bestaddr(S, addr, local) ==
    [S |-> CLRLOCK(SETLOCK(S, local), local),
     ret |-> AddrIn(S, addr, local, AddrSegs(S, addr))]

RECURSIVE SizeWalk(_, _, _, _, _)
SizeWalk_junkToo(S, b, endb, addr, fuel) ==
    IF b >= endb \/ fuel = 0 THEN [done |-> FALSE, size |-> -1]
    ELSE IF addr = DATA(b)
         THEN [done |-> TRUE,
               size |-> IF ~ISBUSY(SIZE(S, b)) THEN -1 ELSE CLRBITS(SIZE(S, b))]
    ELSE IF addr <= b THEN [done |-> FALSE, size |-> -1]
    ELSE SizeWalk(S, DATA(b) + CLRBITS(SIZE(S, b)), endb, addr, fuel - 1)

(* while(b < endb) *)
SizeWalk(S, b, endb, addr, fuel) ==
    IF b >= endb \/ fuel = 0 THEN [done |-> FALSE, size |-> -1]
    ELSE IF addr = DATA(b)
         THEN [done |-> TRUE,
               size |-> IF ~ISBUSY(SIZE(S, b)) \/ ISJUNK(SIZE(S, b)) THEN -1
                        ELSE CLRBITS(SIZE(S, b))]
    ELSE IF addr <= b THEN [done |-> FALSE, size |-> -1]
    ELSE SizeWalk(S, DATA(b) + CLRBITS(SIZE(S, b)), endb, addr, fuel - 1)

RECURSIVE SizeSegs(_, _, _)
SizeFound(w, S, i, addr) == IF w.done THEN w.size ELSE SizeSegs(S, i + 1, addr)

SizeSegs(S, i, addr) ==
    IF i > Len(S.seg) THEN -1
    ELSE IF addr <= SEGBLOCK(S.seg[i]) \/ addr >= S.seg[i].baddr - HEADSIZE
    THEN SizeSegs(S, i + 1, addr)
    ELSE SizeFound(SizeWalk(S, SEGBLOCK(S.seg[i]), S.seg[i].baddr - HEADSIZE, addr, NWORDS),
                   S, i, addr)

bestsize(S, addr, local) ==
    [S |-> CLRLOCK(SETLOCK(S, local), local), ret |-> SizeSegs(S, 1, addr)]

(***************************************************************************)
(* bestfree                                                                *)
(***************************************************************************)
(* if(ISBUSY(s) && !ISJUNK(s)) *)
Freeable_always(s) == TRUE
Freeable(s) == ISBUSY(s) /\ ~ISJUNK(s)

FreeCompact(S, prov) ==
    IF S.wild # NULL /\ SIZE(S, S.wild) >= COMPACT * S.incr
    THEN bestcompact(S, TRUE, prov).S ELSE S

(* coalesce on freeing large blocks to avoid fragmentation *)
FreeCoalesce(S, bp, prov) ==
    IF SIZE(S, bp) >= 2 * S.incr THEN FreeCompact(bestreclaim(S, NULL, 0).S, prov) ELSE S

FreeCache_bucket0(S, bp, s) == PushCache(S, bp, 0)
FreeCache(S, bp, s) ==
    IF s < MAXCACHE THEN PushCache(S, bp, INDEX(s))
    ELSE IF S.free = NULL THEN [S EXCEPT !.free = bp]
    ELSE PushCache(S, bp, S_CACHE)

FreeBlock(S, bp, s, prov) ==
    IF Freeable(s) THEN FreeCoalesce(FreeCache(SETJUNK(S, bp), bp, s), bp, prov) ELSE S

(* vd->pool = (vd->pool + (s&~BITS))/2 *)
FreePool(S, s) == [S EXCEPT !.pool = (@ + CLRBITS(s)) \div 2]

bestfree(S, data, local, prov) ==
    IF data = NULL THEN [S |-> S, ret |-> 0]
    ELSE [S |-> CLRLOCK(FreeBlock(FreePool(SETLOCK(S, local), SIZE(S, BLOCK(data))),
                                  BLOCK(data), SIZE(S, BLOCK(data)), prov),
                        local),
          ret |-> 0]

(***************************************************************************)
(* bestresize                                                              *)
(***************************************************************************)
VM_RSMOVE == "MOVE"
VM_RSCOPY == "COPY"
VM_RSZERO == "ZERO"

(* memset(to, 0, n) and memcpy(to, from, n), word by word *)
memset0(S, to, n) ==
    [S EXCEPT !.mem = [w \in DOMAIN S.mem |->
                          IF w * PTR >= to /\ w * PTR < to + n THEN 0 ELSE S.mem[w]]]
memcpy_nothing(S, to, from, n) == S
memcpy(S, to, from, n) ==
    [S EXCEPT !.mem = [w \in DOMAIN S.mem |->
                          IF w * PTR >= to /\ w * PTR < to + n
                          THEN rd(S, w * PTR - to + from) ELSE S.mem[w]]]

(* do ... while(SIZE(rp) < size): forward merge as much as possible *)
RECURSIVE ResizeMerge(_, _, _, _, _)
MergeAgain(S, rp, np, size, fuel) ==
    IF fuel = 0 \/ ~InMem(np) THEN Fault(S)
    ELSE IF SIZE(S, rp) < size THEN ResizeMerge(S, rp, np, size, fuel - 1)
    ELSE S

(* SIZE(rp) += (s += sizeof(Head_t)); np += s; CLRPFREE(SIZE(np)) *)
Absorb_twice(S, rp, np, s, size, fuel) ==
    MergeAgain(CLRPFREE(setSIZE(Note(S, "absorb", np), rp, SIZE(S, rp) + s), np + s),
               rp, np + s, SIZE(S, rp) + s + 1, fuel)
Absorb(S, rp, np, s, size, fuel) ==
    MergeAgain(CLRPFREE(setSIZE(Note(S, "absorb", np), rp, SIZE(S, rp) + s), np + s),
               rp, np + s, size, fuel)

(* np was junk: bestreclaim has merged it and left it for us *)
AbsorbJunk(S, rp, np, size, fuel) == Absorb(S, rp, np, SIZE(S, np) + HEADSIZE, size, fuel)

ResizeMerge(S, rp, np, size, fuel) ==
    IF np = S.free
    THEN Absorb([S EXCEPT !.free = NULL], rp, np, CLRBITS(SIZE(S, np)) + HEADSIZE,
                size, fuel)
    ELSE IF ISJUNK(SIZE(S, np))
    THEN AbsorbJunk(bestreclaim([S EXCEPT !.want = @ + 1], np, C_INDEX(SIZE(S, np))).S,
                    rp, np, size, fuel)
    ELSE IF ~ISBUSY(SIZE(S, np))
    THEN Absorb(IF np = S.wild THEN [S EXCEPT !.wild = NULL]
                ELSE REMOVE(S, np, INDEX(SIZE(S, np))),
                rp, np, SIZE(S, np) + HEADSIZE, size, fuel)
    ELSE S

GrowSeg(S, i, s) ==
    [S EXCEPT !.seg[i] = [@ EXCEPT !.extent = @ + s, !.size = @ + s, !.baddr = @ + s]]

(* the segment grew by s: a new sentinel follows the block *)
Grown(S, rp, a) ==
    setSIZE(setSEG(S, rp + CLRBITS(SIZE(S, rp)) + HEADSIZE, a),
            rp + CLRBITS(SIZE(S, rp)) + HEADSIZE, BUSY)

GrowDone_noSentinel(got, rp, s, sg, i) ==
    IF got.addr = sg.addr
    THEN GrowSeg(setSIZE([got.S EXCEPT !.via = "grow"], rp, SIZE(got.S, rp) + s), i, s)
    ELSE got.S
GrowDone(got, rp, s, sg, i) ==
    IF got.addr = sg.addr
    THEN Grown(GrowSeg(setSIZE([got.S EXCEPT !.via = "grow"], rp, SIZE(got.S, rp) + s),
                       i, s),
               rp, sg.addr)
    ELSE got.S

GrowBy(S, rp, s, i, prov) ==
    GrowDone(getmemoryGrow(S, S.seg[i], S.seg[i].extent + s, prov), rp, s, S.seg[i], i)

(* grow the segment in place when the block is its last one *)
ResizeGrow(S, rp, size, prov) ==
    IF SIZE(S, rp) < size /\ size > S.incr /\ SEGWILD(S, rp)
    THEN GrowBy(S, rp, ROUND((size - SIZE(S, rp)) + HEADSIZE, S.incr),
                SegIndex(S, SEG(S, rp)), prov)
    ELSE S

(* do_free: reclaim these right away *)
ResizeFree_forget(S, rp) == S
ResizeFree(S, rp) ==
    bestreclaim(PushCache(SETJUNK(S, rp), rp, S_CACHE), NULL, S_CACHE).S

(* if(!(type&(VM_RSMOVE|VM_RSCOPY))) data = NULL: old data is not moveable *)
Movable_always(type) == TRUE
Movable(type) == type \cap {VM_RSMOVE, VM_RSCOPY} # {}

(* resizing a NULL block is the same as allocating *)
ResizeNull(al, size, type) ==
    [S |-> IF al.ret # NULL /\ VM_RSZERO \in type THEN memset0(al.S, al.ret, size)
           ELSE al.S,
     ret |-> al.ret, short |-> FALSE]

(* the block is large enough to split: np is what is cut off *)
ResizeSplit(S, rp, size, s) ==
    setSIZE(setSIZE(copySEG(setSIZE(S, rp, size), DATA(rp) + size, rp),
                    DATA(rp) + size, JunkSize((CLRBITS(s) - size) - HEADSIZE)),
            rp, size + BITSOF(s))

(* the new block is there: copy the old data; rp is then freed *)
Moved(mv, rp, data, oldsize, type) ==
    IF mv.ret = NULL THEN [S |-> mv.S, rp |-> NULL, ret |-> NULL]
    ELSE [S |-> IF VM_RSCOPY \in type THEN memcpy(mv.S, mv.ret, data, oldsize)
                ELSE mv.S,
          rp |-> rp, ret |-> mv.ret]

(* rp in the result is the block that do_free is to reclaim, if any *)
Resized(S, rp, data, size, type, prov) ==
    IF SIZE(S, rp) >= Wrap(size + BODYSIZE + HEADSIZE)
    THEN [S |-> ResizeSplit(S, rp, size, SIZE(S, rp)), rp |-> DATA(rp) + size,
          ret |-> data]
    ELSE IF CLRBITS(SIZE(S, rp)) >= size THEN [S |-> S, rp |-> NULL, ret |-> data]
    ELSE IF ~Movable(type) THEN [S |-> S, rp |-> NULL, ret |-> NULL]
    ELSE Moved(bestalloc(S, size, TRUE, prov), rp, data, CLRBITS(SIZE(S, rp)), type)

DoFree(r) ==
    [S |-> IF r.rp # NULL THEN ResizeFree(r.S, r.rp) ELSE r.S, ret |-> r.ret]

(* if(data && (type&VM_RSZERO) && (size = SIZE(BLOCK(data))&~BITS) > oldsize) *)
ResizeZero(r, oldsize, type) ==
    IF r.ret # NULL /\ VM_RSZERO \in type /\ CLRBITS(SIZE(r.S, BLOCK(r.ret))) > oldsize
    THEN memset0(r.S, r.ret + oldsize, CLRBITS(SIZE(r.S, BLOCK(r.ret))) - oldsize)
    ELSE r.S

(* short: the block could not be brought to the new size where it is *)
ResizeDone(r, oldsize, type, local, short) ==
    [S |-> CLRLOCK(ResizeZero(r, oldsize, type), local), ret |-> r.ret, short |-> short]

ResizeAt(S, rp, data, size, oldsize, type, local, prov) ==
    ResizeDone(DoFree(Resized(S, rp, data, size, type, prov)), oldsize, type, local,
               SIZE(S, rp) < Wrap(size + BODYSIZE + HEADSIZE)
                   /\ CLRBITS(SIZE(S, rp)) < size)

ResizeBlock(S, rp, data, size, oldsize, type, local, prov) ==
    ResizeAt(IF oldsize < size
             THEN ResizeGrow(ResizeMerge(S, rp, rp + oldsize + HEADSIZE, size, NWORDS),
                             rp, size, prov)
             ELSE S,
             rp, data, size, oldsize, type, local, prov)

bestresize(S, data, orgsize, type, local, prov) ==
    IF data = NULL THEN ResizeNull(bestalloc(S, orgsize, local, prov), orgsize, type)
    ELSE IF orgsize = 0
    THEN [S |-> bestfree(S, data, local, prov).S, ret |-> NULL, short |-> FALSE]
    ELSE ResizeBlock(SETLOCK(S, local), BLOCK(data), data, RoundReq(orgsize),
                     CLRBITS(SIZE(S, BLOCK(data))), type, local, prov)

(***************************************************************************)
(* bestalign                                                               *)
(***************************************************************************)
(* get an aligned address that we can live with *)
AlignData_asIs(data, align) == data
AlignData(data, align) ==
    IF data % align # 0 THEN data + (align - (data % align)) ELSE data

(* the left part must be big enough to be a block of its own *)
AlignShift(tp, data, align) ==
    IF BLOCK(data) # tp /\ BLOCK(data) - tp < BLOCKSIZE THEN data + align ELSE data

CacheBlock(S, b) == PushCache(S, b, C_INDEX(SIZE(S, b)))

AlignLeftSize(S, tp, s) ==
    CacheBlock(setSIZE(S, tp, SETBIT((s - HEADSIZE) + BITSOF(SIZE(S, tp)), JUNK)), tp)

(* need to free left part *)
AlignLeft(S, tp, np, seg) ==
    AlignLeftSize(setSEG(setSIZE(S, np, SETBIT(CLRBITS(SIZE(S, tp)) - (np - tp), BUSY)),
                         np, seg),
                  tp, np - tp)

AlignRight(S, np, size, seg, s) ==
    setSIZE(CacheBlock(setSEG(setSIZE(setSIZE(S, np, size), DATA(np) + size,
                                      JunkSize(CLRBITS(s) - HEADSIZE)),
                              DATA(np) + size, seg),
                       DATA(np) + size),
            np, size + BITSOF(s))

(* free leftover if too big *)
AlignTrim(S, np, size, seg) ==
    IF Wrap(SIZE(S, np) - size) >= BLOCKSIZE
    THEN AlignRight(S, np, size, seg, Wrap(SIZE(S, np) - size))
    ELSE S

AlignCarve(S, tp, np, size, seg) ==
    AlignTrim(IF np # tp THEN AlignLeft(S, tp, np, seg) ELSE S, np, size, seg)

(* base, basez: the body that bestalloc returned, for reference *)
AlignGot(al, data, size, local) ==
    [S |-> CLRLOCK(bestreclaim(AlignCarve(al.S, BLOCK(al.ret), BLOCK(data), size,
                                          SEG(al.S, BLOCK(al.ret))),
                               NULL, 0).S,
                   local),
     ret |-> data, base |-> al.ret, basez |-> CLRBITS(SIZE(al.S, BLOCK(al.ret)))]

AlignBlock(al, size, align, local) ==
    IF al.ret = NULL
    THEN [S |-> CLRLOCK(al.S, local), ret |-> NULL, base |-> NULL, basez |-> 0]
    ELSE AlignGot(al, AlignShift(BLOCK(al.ret), AlignData(al.ret, align), align),
                  size, local)

(* reclaim all free blocks now to avoid fragmentation *)
AlignSized(S, size, align, local, prov) ==
    AlignBlock(bestalloc(bestreclaim(S, NULL, 0).S, Wrap(size + 2 * (align + HEADSIZE)),
                         TRUE, prov),
               size, align, local)

bestalign(S, orgsize, orgalign, local, prov) ==
    IF orgsize <= 0 \/ orgalign <= 0
    THEN [S |-> S, ret |-> NULL, base |-> NULL, basez |-> 0]
    ELSE AlignSized(SETLOCK(S, local), RoundReq(orgsize), MULTIPLE(orgalign, ALIGN),
                    local, prov)

(***************************************************************************)
(* The region and its callers.                                             *)
(*   mem .. lock   the region: word memory, segment list and Vmdata_t      *)
(*   fault         a wild write, a failed search for a wanted block or a   *)
(*                 loop that ran away happened                             *)
(*   owned         the bodies handed out and not yet freed: for each body  *)
(*                 address, the address it was first allocated at (orig),  *)
(*                 its size when handed out (len), the number of leading   *)
(*                 bytes that must still hold what the caller wrote when   *)
(*                 it was allocated (valid), and the number of resizes it  *)
(*                 went through if all had flags MOVE|COPY (chain, else -1)*)
(*   op            the last operation, its arguments and its result, and  *)
(*                 what was known before it: the body size (oldz), the     *)
(*                 chain count of the body (chain), whether the caller     *)
(*                 held the body (own)                                     *)
(*   nops          the number of operations so far                         *)
(*   cfg           how the region is set up and used: the round of its     *)
(*                 discipline, whether the callers keep a log, whether a   *)
(*                 call and its return are separate steps                  *)
(*   hist          the log of the operations, where one is kept            *)
(*   inside        the number of callers inside an operation               *)
(***************************************************************************)
VARIABLES mem, seg, free, wild, root, tiny, cache, incr, pool, lock, fault,
          owned, op, nops, cfg, hist, inside

vars == <<mem, seg, free, wild, root, tiny, cache, incr, pool, lock, fault,
          owned, op, nops, cfg, hist, inside>>
region == <<mem, seg, free, wild, root, tiny, cache, incr, pool, lock, fault>>

St == [mem |-> mem, seg |-> seg, free |-> free, wild |-> wild, root |-> root,
       tiny |-> tiny, cache |-> cache, incr |-> incr, pool |-> pool,
       lock |-> lock, fault |-> fault, refused |-> {}, round |-> cfg.round,
       top |-> cfg.top,
       acq |-> 0, rel |-> 0, bare |-> FALSE, via |-> "none",
       scan |-> [i \in 0..S_CACHE |-> 0], met |-> 0, want |-> 0,
       wput |-> 0, clob |-> FALSE, ev |-> << >>, rich |-> FALSE]

(* the state an operation leaves.  Where calls and returns are separate    *)
(* steps (cfg.split) the caller is still inside the operation, before its  *)
(* last release of the lock; where the callers keep a log (cfg.log) the    *)
(* operation is added to it.                                               *)
Pending(S) == IF cfg.split /\ S.rel > 0 THEN 1 ELSE 0

Commit(S) ==
    /\ mem' = S.mem /\ seg' = S.seg /\ free' = S.free /\ wild' = S.wild
    /\ root' = S.root /\ tiny' = S.tiny /\ cache' = S.cache /\ incr' = S.incr
    /\ pool' = S.pool /\ fault' = S.fault
    /\ lock' = S.lock + Pending(S)
    /\ inside' = inside + Pending(S)
    /\ hist' = IF cfg.log THEN Append(hist, op') ELSE hist

(* the sizes, alignments, flag sets and providers the callers use *)
ReqSizes == {0, 40, 120}
ReqAligns == {8, 64}
ReqFlags == {{}, {VM_RSMOVE}, {VM_RSCOPY, VM_RSZERO}, {VM_RSMOVE, VM_RSCOPY}}
ProvKinds ==
    { [new |-> TRUE, grow |-> TRUE, shrink |-> TRUE, release |-> TRUE],
      [new |-> TRUE, grow |-> FALSE, shrink |-> FALSE, release |-> TRUE],
      [new |-> FALSE, grow |-> FALSE, shrink |-> FALSE, release |-> FALSE] }

(* what a caller writes into a body it was given: a value that names the   *)
(* body and the offset                                                     *)
Token(orig, off) == 0 - (orig + off) - 2
Fill(S, d, n, orig) ==
    [S EXCEPT !.mem = [w \in DOMAIN S.mem |->
                          IF w * PTR >= d /\ w * PTR < d + n
                          THEN Token(orig, w * PTR - d) ELSE S.mem[w]]]
Scrub(S, d, n) ==
    [S EXCEPT !.mem = [w \in DOMAIN S.mem |->
                          IF w * PTR >= d /\ w * PTR < d + n THEN POISON ELSE S.mem[w]]]

BodySize(S, d) == CLRBITS(SIZE(S, BLOCK(d)))
Drop(f, d) == [q \in DOMAIN f \ {d} |-> f[q]]

OpRec(name, p, n, al, fl, ret) ==
    [name |-> name, p |-> p, n |-> n, al |-> al, fl |-> fl, ret |-> ret,
     oldz |-> 0, refused |-> {}, base |-> NULL, basez |-> 0, short |-> FALSE,
     chain |-> -1, own |-> FALSE, acq |-> 0, rel |-> 0, bare |-> FALSE,
     via |-> "none", nseg |-> 0, met |-> 0, want |-> 0, wput |-> 0, clob |-> FALSE,
     ev |-> << >>, rich |-> FALSE]

(* the operation record with what the operation did to the lock, which     *)
(* provider requests were refused and where a block was found              *)
Noted(o, S) ==
    [o EXCEPT !.refused = S.refused, !.acq = S.acq, !.rel = S.rel,
              !.bare = S.bare, !.via = S.via, !.nseg = Len(S.seg),
              !.met = S.met, !.want = S.want, !.wput = S.wput, !.clob = S.clob,
              !.ev = S.ev, !.rich = S.rich]

Start(c) ==
    /\ mem = [w \in 0..(NWORDS - 1) |-> 0]
    /\ seg = << >>
    /\ free = NULL /\ wild = NULL /\ root = NULL
    /\ tiny = [i \in 0..(S_TINY - 1) |-> NULL]
    /\ cache = [i \in 0..S_CACHE |-> NULL]
    /\ incr = 0 /\ pool = 0 /\ lock = 0 /\ fault = FALSE
    /\ owned = << >>
    /\ op = OpRec("init", NULL, 0, 0, {}, NULL)
    /\ nops = 0
    /\ cfg = c
    /\ hist = << >>
    /\ inside = 0

(* the heap region over the default discipline, whose round is 0: the page *)
(* size is used                                                            *)
Init == Start([round |-> PAGE, top |-> MEMTOP, log |-> FALSE, split |-> FALSE])

Handout(S, d, orig, valid, chain) ==
    d :> [orig |-> orig, len |-> BodySize(S, d), valid |-> valid, chain |-> chain]

(***************************************************************************)
(* The blocks of the region as a walk over the segments finds them, and    *)
(* the blocks reachable from the free tree, the tiny lists, the cache      *)
(* lists and the two slots, in the order met and with repetitions.         *)
(***************************************************************************)
MaxBlocks == (NWORDS * PTR - MEMBASE) \div BLOCKSIZE

RECURSIVE WalkBlocks(_, _, _, _)
WalkBlocks(S, b, endb, fuel) ==
    IF b >= endb \/ fuel = 0 THEN {}
    ELSE {b} \cup WalkBlocks(S, DATA(b) + CLRBITS(SIZE(S, b)), endb, fuel - 1)

RECURSIVE WalkEnd(_, _, _, _)
WalkEnd(S, b, endb, fuel) ==
    IF b >= endb \/ fuel = 0 THEN b
    ELSE WalkEnd(S, DATA(b) + CLRBITS(SIZE(S, b)), endb, fuel - 1)

SegBlocks(S, i) ==
    WalkBlocks(S, SEGBLOCK(S.seg[i]), S.seg[i].baddr - HEADSIZE, NWORDS)
Blocks(S) == UNION { SegBlocks(S, i) : i \in 1..Len(S.seg) }

Range(q) == { q[i] : i \in 1..Len(q) }
Count(q, x) == Cardinality({ i \in 1..Len(q) : q[i] = x })

RECURSIVE ListSeq(_, _, _)
ListSeq(S, b, fuel) ==
    IF b = NULL \/ fuel = 0 \/ ~InMem(b) THEN << >>
    ELSE <<b>> \o ListSeq(S, LINK(S, b), fuel - 1)

RECURSIVE TreeSeq(_, _, _)
TreeSeq(S, r, fuel) ==
    IF r = NULL \/ fuel = 0 \/ ~InMem(r) THEN << >>
    ELSE ListSeq(S, r, MaxBlocks + 1) \o TreeSeq(S, LEFT(S, r), fuel - 1)
                                       \o TreeSeq(S, RIGHT(S, r), fuel - 1)

RECURSIVE ListsSeq(_, _, _)
ListsSeq(S, heads, i) ==
    IF i \notin DOMAIN heads THEN << >>
    ELSE ListSeq(S, heads[i], MaxBlocks + 1) \o ListsSeq(S, heads, i + 1)

Slot(b) == IF b = NULL THEN << >> ELSE <<b>>

FreeHomes(S) == TreeSeq(S, S.root, MaxBlocks + 1) \o ListsSeq(S, S.tiny, 0) \o Slot(S.wild)
JunkHomes(S) == ListsSeq(S, S.cache, 0) \o Slot(S.free)
Held(S) == Range(FreeHomes(S)) \cup Range(JunkHomes(S))

IsBusyBody(S, d) ==
    /\ BLOCK(d) \in Blocks(S)
    /\ ISBUSY(SIZE(S, BLOCK(d))) /\ ~ISJUNK(SIZE(S, BLOCK(d)))

(* the structural invariants of a region no operation is working on, own   *)
(* being the bodies in callers' hands                                      *)
SegOK(S, i) ==
    LET sg == S.seg[i]
        endb == sg.baddr - HEADSIZE
    IN  /\ sg.baddr = sg.addr + sg.extent
        /\ sg.size = sg.extent - SEGHEAD - 2 * HEADSIZE
        /\ WalkEnd(S, SEGBLOCK(sg), endb, NWORDS) = endb
        /\ CLRBITS(SIZE(S, endb)) = 0 /\ ISBUSY(SIZE(S, endb)) /\ ~ISJUNK(SIZE(S, endb))
        /\ \A b \in SegBlocks(S, i) :
              /\ CLRBITS(SIZE(S, b)) >= BODYSIZE
              /\ SEG(S, b) = sg.addr
              /\ ISPFREE(SIZE(S, NEXT(S, b) - BITSOF(SIZE(S, b)))) <=> ~ISBUSY(SIZE(S, b))

BlockOK(S, own, b) ==
    LET z == SIZE(S, b) IN
    IF ~ISBUSY(z)
    THEN /\ BITSOF(z) = 0
         /\ SELF(S, b) = b
         /\ Count(FreeHomes(S), b) = 1 /\ Count(JunkHomes(S), b) = 0
         /\ DATA(b) \notin own
    ELSE IF ISJUNK(z)
    THEN /\ Count(JunkHomes(S), b) = 1 /\ Count(FreeHomes(S), b) = 0
         /\ DATA(b) \notin own
    ELSE /\ DATA(b) \in own
         /\ b \notin Held(S)

HeapOK(S, own) ==
    /\ ~S.fault
    /\ S.lock = 0
    /\ \A i \in 1..Len(S.seg) : SegOK(S, i)
    /\ \A b \in Blocks(S) : BlockOK(S, own, b)
    /\ Held(S) \subseteq Blocks(S)
    /\ \A d \in own : BLOCK(d) \in Blocks(S)

(***************************************************************************)
(* The operations.  A caller fills a body it is given and scrubs it before *)
(* giving it back.                                                         *)
(***************************************************************************)
(* a caller that finds the lock held waits for it *)
Await == cfg.split => lock = 0

Step(lim) == nops < lim /\ nops' = nops + 1 /\ cfg' = cfg /\ Await

Alloc(lim, n, prov) ==
    /\ Step(lim)
    /\ \E r \in {bestalloc(St, n, FALSE, prov)} :
          /\ op' = Noted(OpRec("alloc", NULL, n, 0, {}, r.ret), r.S)
          /\ IF r.ret # NULL
             THEN /\ Commit(Fill(r.S, r.ret, BodySize(r.S, r.ret), r.ret))
                  /\ owned' = Handout(r.S, r.ret, r.ret, BodySize(r.S, r.ret), 0) @@ owned
             ELSE /\ Commit(r.S)
                  /\ owned' = owned

Align(lim, n, a, prov) ==
    /\ Step(lim)
    /\ \E r \in {bestalign(St, n, a, FALSE, prov)} :
          /\ op' = [Noted(OpRec("align", NULL, n, a, {}, r.ret), r.S)
                       EXCEPT !.base = r.base, !.basez = r.basez]
          /\ IF r.ret # NULL
             THEN /\ Commit(Fill(r.S, r.ret, BodySize(r.S, r.ret), r.ret))
                  /\ owned' = Handout(r.S, r.ret, r.ret, BodySize(r.S, r.ret), 0) @@ owned
             ELSE /\ Commit(r.S)
                  /\ owned' = owned

(* the addresses a body can have *)
BodyAddrs == { a \in MEMBASE..(NWORDS * PTR) : a % ALIGN = 0 }

(* the addresses a caller may pass to free: a body it holds, or the body   *)
(* of a block that is already junk or free                                 *)
FreeArgs ==
    DOMAIN owned \cup
    { DATA(b) : b \in { c \in Blocks(St) : ~ISBUSY(SIZE(St, c)) \/ ISJUNK(SIZE(St, c)) } }

Free(lim, d, prov) ==
    /\ Step(lim)
    /\ d \in FreeArgs
    /\ \E r \in {bestfree(IF d \in DOMAIN owned THEN Scrub(St, d, BodySize(St, d)) ELSE St,
                          d, FALSE, prov)} :
          /\ op' = [Noted(OpRec("free", d, 0, 0, {}, r.ret), r.S)
                       EXCEPT !.oldz = BodySize(St, d),
                              !.own = d \in DOMAIN owned]
          /\ Commit(r.S)
          /\ owned' = Drop(owned, d)

(* what the caller knows of the body after a resize *)
ResizeChain(h, fl) ==
    IF h.chain >= 0 /\ fl = {VM_RSMOVE, VM_RSCOPY} THEN h.chain + 1 ELSE -1
ResizeValid(h, d, n, fl, ret) ==
    IF ret # d /\ VM_RSCOPY \notin fl THEN 0 ELSE Min(h.valid, n)

Resize(lim, d, n, fl, prov) ==
    /\ Step(lim)
    /\ d \in DOMAIN owned
    /\ n > 0
    /\ \E r \in {bestresize(St, d, n, fl, FALSE, prov)} :
          /\ op' = [Noted(OpRec("resize", d, n, 0, fl, r.ret), r.S)
                       EXCEPT !.oldz = BodySize(St, d),
                              !.short = r.short, !.chain = owned[d].chain]
          /\ Commit(r.S)
          /\ owned' = IF r.ret = NULL THEN owned
                      ELSE Handout(r.S, r.ret, owned[d].orig,
                                   ResizeValid(owned[d], d, n, fl, r.ret),
                                   ResizeChain(owned[d], fl)) @@ Drop(owned, d)

Compact(lim, prov) ==
    /\ Step(lim)
    /\ \E r \in {bestcompact(St, FALSE, prov)} :
          /\ op' = Noted(OpRec("compact", NULL, 0, 0, {}, r.ret), r.S)
          /\ Commit(r.S)
          /\ owned' = owned

(* the addresses a caller may ask about *)
QueryAddrs == { a \in (MEMBASE - PTR)..MEMTOP : a % PTR = 0 }

AddrCheck(lim, a) ==
    /\ Step(lim)
    /\ \E r \in {bestaddr(St, a, FALSE)} :
          /\ op' = Noted(OpRec("addr", a, 0, 0, {}, r.ret), r.S)
          /\ Commit(r.S)
          /\ owned' = owned

SizeOf(lim, a) ==
    /\ Step(lim)
    /\ \E r \in {bestsize(St, a, FALSE)} :
          /\ op' = Noted(OpRec("size", a, 0, 0, {}, r.ret), r.S)
          /\ Commit(r.S)
          /\ owned' = owned

Change(lim) ==
    \/ \E n \in ReqSizes, prov \in ProvKinds : Alloc(lim, n, prov)
    \/ \E n \in ReqSizes, a \in ReqAligns, prov \in ProvKinds : Align(lim, n, a, prov)
    \/ \E d \in BodyAddrs, prov \in ProvKinds : Free(lim, d, prov)
    \/ \E d \in BodyAddrs, n \in ReqSizes, fl \in ReqFlags, prov \in ProvKinds :
          Resize(lim, d, n, fl, prov)
    \/ \E prov \in ProvKinds : Compact(lim, prov)

Query(lim) ==
    \/ \E a \in QueryAddrs : AddrCheck(lim, a)
    \/ \E a \in QueryAddrs : SizeOf(lim, a)

(* the last CLRLOCK of an operation, where it is a step of its own: the    *)
(* caller leaves the operation                                             *)
Return ==
    /\ cfg.split
    /\ inside > 0
    /\ inside' = inside - 1
    /\ lock' = lock - 1
    /\ UNCHANGED <<mem, seg, free, wild, root, tiny, cache, incr, pool, fault,
                   owned, op, nops, cfg, hist>>

(* several callers: an operation is called while others may be inside one *)
InitL == Start([round |-> PAGE, top |-> MEMTOP, log |-> FALSE, split |-> TRUE])

(***************************************************************************)
(* A caller that keeps a log and works in rounds: it allocates up to       *)
(* MaxAllocsS blocks, frees up to MaxFreesS of them, allocates once more   *)
(* and asks about one address.  The region is over the memory-mapping      *)
(* discipline, whose segments hold several blocks, and the provider grants *)
(* what it can.                                                            *)
(***************************************************************************)
ScnSizes == {24, 48, 56}
Grant == [new |-> TRUE, grow |-> TRUE, shrink |-> TRUE, release |-> TRUE]

Logged(name) == { i \in 1..Len(hist) : hist[i].name = name }
Last == hist[Len(hist)]
InRounds ==
    /\ Logged("addr") = {}
    /\ \A i \in Logged("free") : \A j \in Logged("alloc") : j < i \/ j = Len(hist)

AllocS(n) ==
    /\ InRounds
    /\ \/ Logged("free") = {} /\ Len(hist) < MaxAllocsS
       \/ hist # << >> /\ Last.name = "free"
    /\ Alloc(MaxOpsS, n, Grant)

FreeS(d) ==
    /\ InRounds
    /\ hist # << >>
    /\ \A j \in Logged("alloc") : \A i \in Logged("free") : j < i
    /\ Cardinality(Logged("free")) < MaxFreesS
    /\ d \in DOMAIN owned
    /\ Free(MaxOpsS, d, Grant)

AddrS(a) ==
    /\ InRounds
    /\ Logged("free") # {}
    /\ Last.name = "alloc"
    /\ AddrCheck(MaxOpsS, a)

InitS == Start([round |-> MAPROUND, top |-> MEMTOP, log |-> TRUE, split |-> FALSE])

(***************************************************************************)
(* A caller that fills one large segment with up to MaxAllocsT blocks,     *)
(* every second one of the smallest size, frees up to MaxFreesT of them    *)
(* and then compacts or allocates up to MaxAfterT times: the free blocks   *)
(* lie apart, so that the tree gets three nodes.                           *)
(***************************************************************************)
AfterFrees ==
    { i \in 1..Len(hist) : hist[i].name # "free" /\ \E j \in Logged("free") : j < i }

AllocT(n) ==
    /\ \/ /\ Logged("free") = {}
          /\ Len(hist) < MaxAllocsT
          /\ Len(hist) % 2 = 1 => n = Least(ScnSizes)
       \/ /\ Logged("free") # {}
          /\ Cardinality(AfterFrees) < MaxAfterT
    /\ Alloc(MaxOpsT, n, Grant)

FreeT(d) ==
    /\ hist # << >>
    /\ AfterFrees = {}
    /\ Cardinality(Logged("free")) < MaxFreesT
    /\ d \in DOMAIN owned
    /\ Free(MaxOpsT, d, Grant)

CompactT ==
    /\ Logged("free") # {}
    /\ Cardinality(AfterFrees) < MaxAfterT
    /\ Compact(MaxOpsT, Grant)

(***************************************************************************)
(* A caller whose last request is for a size near the largest value of a   *)
(* machine word.                                                           *)
(***************************************************************************)
WideSizes == {WORD - 1, WORD - ALIGN, WORD - 100}
Usual == op.n \notin WideSizes

NextW ==
    \/ \E n \in ReqSizes \cup WideSizes, prov \in ProvKinds :
          Usual /\ Alloc(MaxOpsW, n, prov)
    \/ \E n \in WideSizes, a \in ReqAligns, prov \in ProvKinds :
          Usual /\ Align(MaxOpsW, n, a, prov)
    \/ \E d \in BodyAddrs, prov \in ProvKinds :
          Usual /\ d \in DOMAIN owned /\ Free(MaxOpsW, d, prov)
    \/ \E d \in BodyAddrs, n \in WideSizes, fl \in ReqFlags, prov \in ProvKinds :
          Usual /\ Resize(MaxOpsW, d, n, fl, prov)

(***************************************************************************)
(* A caller that fills one large segment with up to MaxAllocsR blocks,     *)
(* frees some of them and compacts, MaxMidR times in all, and then grows   *)
(* one of the blocks it still holds.                                       *)
(***************************************************************************)
GrowFrom == {24, 56}
GrowTo == {72, 120}
GrowFlags == {{}, {VM_RSMOVE, VM_RSCOPY}}

MidR ==
    /\ hist # << >>
    /\ Logged("resize") = {}
    /\ Cardinality(Logged("free") \cup Logged("compact")) < MaxMidR

InitR == Start([round |-> MaxPagesT * PAGE, top |-> MEMTOPT, log |-> TRUE, split |-> FALSE])

NextR ==
    \/ \E n \in GrowFrom :
          /\ Logged("free") = {} /\ Len(hist) < MaxAllocsR
          /\ Alloc(MaxOpsR, n, Grant)
    \/ \E d \in BodyAddrs :
          MidR /\ d \in DOMAIN owned /\ Free(MaxOpsR, d, Grant)
    \/ /\ MidR /\ Logged("free") # {}
       /\ Compact(MaxOpsR, Grant)
    \/ \E d \in BodyAddrs, n \in GrowTo, fl \in GrowFlags :
          /\ Logged("resize") = {} /\ Logged("free") # {}
          /\ Resize(MaxOpsR, d, n, fl, Grant)

InitT == Start([round |-> MaxPagesT * PAGE, top |-> MEMTOPT, log |-> TRUE, split |-> FALSE])

NextT ==
    \/ \E n \in ScnSizes : AllocT(n)
    \/ \E d \in BodyAddrs : FreeT(d)
    \/ CompactT

NextS ==
    \/ \E n \in ScnSizes : AllocS(n)
    \/ \E d \in BodyAddrs : FreeS(d)
    \/ \E a \in BodyAddrs : AddrS(a)

Next == Change(MaxOps)
NextQ == Change(MaxOpsQ) \/ Query(MaxOpsQ)
NextL == Change(MaxOpsL) \/ Query(MaxOpsL) \/ Return

Spec == Init /\ [][Next]_vars
SpecQ == Init /\ [][NextQ]_vars
SpecL == InitL /\ [][NextL]_vars
SpecS == InitS /\ [][NextS]_vars
SpecT == InitT /\ [][NextT]_vars
SpecR == InitR /\ [][NextR]_vars
SpecW == Init /\ [][NextW]_vars

(* the region is structurally sound between operations *)
RegionOK == HeapOK(St, DOMAIN owned)

(***************************************************************************)
(* Properties.                                                             *)
(***************************************************************************)
(* the end of the body at d as its holder and the allocator see it *)
BodyEnd(d) == d + Max(owned[d].len, BodySize(St, d))

(* the first owned[d].valid bytes of the body at d hold what was written   *)
(* when it was allocated                                                   *)
Intact(d) ==
    \A k \in 0..((owned[d].valid \div PTR) - 1) :
        rd(St, d + k * PTR) = Token(owned[d].orig, k * PTR)

(* the block f, header and body, lies outside the bytes lo .. hi - 1 *)
Apart(f, lo, hi) ==
    hi <= f \/ (DATA(f) <= lo /\ DATA(f) + CLRBITS(SIZE(St, f)) <= lo)

(* C1: the bodies handed out and not given back are pairwise disjoint, and *)
(* none overlaps a block held on the free tree, a tiny list, the           *)
(* wilderness slot, a cache list or the last-freed slot.                   *)
C1_ExclusiveBodies ==
    /\ \A d, e \in DOMAIN owned : d # e => BodyEnd(d) <= e \/ BodyEnd(e) <= d
    /\ \A d \in DOMAIN owned : \A f \in Held(St) : Apart(f, d, BodyEnd(d))

C1_Witness ==
    /\ Cardinality(DOMAIN owned) >= 2
    /\ FreeHomes(St) # << >>
    /\ JunkHomes(St) # << >>

(* C2: when no provider request is refused, alloc(n), n = 0 included,      *)
(* returns the body of a BUSY, non-JUNK block whose size is a multiple of  *)
(* the granule and at least max(n, BODYSIZE); freeing that address is      *)
(* accepted: the block goes to the cache or is coalesced, and the region   *)
(* stays sound.                                                            *)
C2_AllocReturnsBlock ==
    (op.name = "alloc" /\ op.refused = {}) =>
        /\ op.ret # NULL
        /\ IsBusyBody(St, op.ret)
        /\ BodySize(St, op.ret) % ALIGN = 0
        /\ BodySize(St, op.ret) >= Max(op.n, BODYSIZE)
        /\ \A prov \in ProvKinds :
              LET r == bestfree(St, op.ret, FALSE, prov) IN
              /\ r.ret = 0
              /\ ~IsBusyBody(r.S, op.ret)
              /\ HeapOK(r.S, DOMAIN owned \ {op.ret})

C2_Witness ==
    /\ op.name = "alloc" /\ op.n = 0 /\ op.refused = {} /\ op.ret # NULL
    /\ Cardinality(DOMAIN owned) >= 2

(* the bodies of busy, non-junk blocks that hold the address a *)
BusyBodiesAt(S, a) ==
    { d \in { DATA(b) : b \in Blocks(S) } :
        IsBusyBody(S, d) /\ d <= a /\ a < d + BodySize(S, d) }

C4_SizeOfBusyBody ==
    [][op'.name = "size" =>
          /\ region' = region
          /\ op'.ret = IF IsBusyBody(St, op'.p) THEN BodySize(St, op'.p) ELSE -1]_vars

C4_Witness ==
    /\ op.name = "size" /\ op.ret >= BODYSIZE
    /\ JunkHomes(St) # << >>

(* C5: when no provider request is refused, align(s, a) with s > 0, a > 0  *)
(* returns an address that is a multiple of a and the body start of a      *)
(* busy, non-junk block of size-of at least s; the block lies inside the   *)
(* block the underlying alloc returned and no carved fragment, nor any     *)
(* other held block, overlaps it.                                          *)
C5_AlignedBlock ==
    (op.name = "align" /\ op.n > 0 /\ op.al > 0 /\ op.refused = {}) =>
        /\ op.ret # NULL
        /\ op.ret % op.al = 0
        /\ IsBusyBody(St, op.ret)
        /\ bestsize(St, op.ret, FALSE).ret >= op.n
        /\ BLOCK(op.base) <= BLOCK(op.ret)
        /\ op.ret + BodySize(St, op.ret) <= op.base + op.basez
        /\ \A f \in Held(St) : Apart(f, BLOCK(op.ret), op.ret + BodySize(St, op.ret))

C5_Witness ==
    /\ op.name = "align" /\ op.refused = {} /\ op.ret # NULL
    /\ op.ret > op.base
    /\ op.ret + BodySize(St, op.ret) < op.base + op.basez

(* C6 as stated: with MOVE clear, a resize that cannot reach the size in   *)
(* place returns nil and leaves the block busy, off every list and with    *)
(* its contents.                                                           *)
C6_MoveClearFails ==
    (op.name = "resize" /\ VM_RSMOVE \notin op.fl /\ op.short) =>
        /\ op.ret = NULL
        /\ op.p \in DOMAIN owned
        /\ IsBusyBody(St, op.p)
        /\ BLOCK(op.p) \notin Held(St)
        /\ Intact(op.p)

(* C6: with MOVE and COPY both clear, a resize that cannot reach the size  *)
(* in place returns nil; the block at p is still BUSY and not JUNK, on no  *)
(* cache or free list, no smaller than before, and its original contents   *)
(* are unchanged.                                                          *)
C6_UnmovableFails ==
    (op.name = "resize" /\ op.fl \cap {VM_RSMOVE, VM_RSCOPY} = {} /\ op.short) =>
        /\ op.ret = NULL
        /\ op.p \in DOMAIN owned
        /\ IsBusyBody(St, op.p)
        /\ BodySize(St, op.p) >= op.oldz
        /\ BLOCK(op.p) \notin Held(St)
        /\ \A f \in Held(St) : Apart(f, BLOCK(op.p), op.p + BodySize(St, op.p))
        /\ Intact(op.p)

C6_Witness ==
    /\ op.name = "resize" /\ op.fl \cap {VM_RSMOVE, VM_RSCOPY} = {} /\ op.short
    /\ op.refused = {}
    /\ op.ret = NULL
    /\ op.p \in DOMAIN owned /\ owned[op.p].valid > 0

(* C7: for an allocated block, resize(resize(p, s1, MOVE|COPY), s2,        *)
(* MOVE|COPY) returns, when no provider request is refused, the body start *)
(* of a busy, non-junk block of size at least s2 whose first               *)
(* min(original size, s1, s2) bytes are those the original block held.     *)
C7_ResizeTwiceKeepsBytes ==
    (op.name = "resize" /\ op.fl = {VM_RSMOVE, VM_RSCOPY} /\ op.chain = 1
        /\ op.refused = {}) =>
        /\ op.ret # NULL
        /\ op.ret \in DOMAIN owned
        /\ IsBusyBody(St, op.ret)
        /\ BodySize(St, op.ret) >= op.n
        /\ owned[op.ret].chain = 2
        /\ owned[op.ret].valid >= Min(BODYSIZE, op.n)
        /\ Intact(op.ret)

C7_Witness ==
    /\ op.name = "resize" /\ op.fl = {VM_RSMOVE, VM_RSCOPY} /\ op.chain = 1
    /\ op.refused = {}
    /\ op.ret # NULL /\ op.ret \in DOMAIN owned
    /\ owned[op.ret].orig # op.ret
    /\ owned[op.ret].valid > 0
    /\ BodySize(St, op.ret) > op.oldz

Denied ==
    /\ "new" \in op'.refused
    /\ \/ op'.name \in {"alloc", "align"}
       \/ op'.name = "resize" /\ Movable(op'.fl)

(* C10 as stated: when the provider refuses, the operation returns nil and *)
(* no block handed out before changes its status or its size-of result.    *)
C10_RefusalChangesNoBlock ==
    [][Denied =>
          /\ op'.ret = NULL
          /\ owned' = owned
          /\ \A d \in DOMAIN owned :
                /\ IsBusyBody(St, d)'
                /\ bestsize(St, d, FALSE).ret' = bestsize(St, d, FALSE).ret
          /\ lock' = 0
          /\ RegionOK']_vars

(* C10: when the provider refuses the request for new memory, alloc, align *)
(* and a moving resize return nil; every block handed out before is still  *)
(* busy with its contents, and keeps its size-of result except the block   *)
(* being resized, which may have grown by the free blocks that followed    *)
(* it; the lock is released and the region is structurally sound.          *)
C10_RefusalKeepsBlocks ==
    [][Denied =>
          /\ op'.ret = NULL
          /\ owned' = owned
          /\ \A d \in DOMAIN owned :
                /\ IsBusyBody(St, d)'
                /\ Intact(d)'
                /\ \/ bestsize(St, d, FALSE).ret' = bestsize(St, d, FALSE).ret
                   \/ /\ op'.name = "resize" /\ d = op'.p
                      /\ bestsize(St, d, FALSE).ret' > bestsize(St, d, FALSE).ret
          /\ lock' = 0
          /\ RegionOK']_vars

C10_Witness ==
    /\ op.name = "resize" /\ Movable(op.fl) /\ "new" \in op.refused
    /\ op.ret = NULL
    /\ bestsize(St, op.p, FALSE).ret > op.oldz
    /\ Cardinality(DOMAIN owned) >= 2


(* an operation that returns at its argument check, before SETLOCK:        *)
(* bestalign with a size or an alignment that is not positive              *)
EarlyReturn(o) == o.name = "align" /\ (o.n <= 0 \/ o.al <= 0)

Began(names) ==
    /\ Len(hist) >= Len(names)
    /\ \A i \in 1..Len(names) : hist[i].name = names[i]

(* p1 = alloc(s); p2 = alloc(s); free(p1); alloc(s) in a fresh region *)
TwoThenFreeFirst ==
    /\ Began(<<"alloc", "alloc", "free", "alloc">>)
    /\ hist[1].ret # NULL /\ hist[2].ret # NULL
    /\ hist[2].n = hist[1].n /\ hist[4].n = hist[1].n
    /\ hist[3].p = hist[1].ret

(* C12: in a fresh region, for any size s, after p1 = alloc(s),            *)
(* p2 = alloc(s), free(p1), the next alloc(s) returns p1: the block just   *)
(* freed is used again and the region is not extended.                     *)
C12_FreedBlockReused ==
    TwoThenFreeFirst =>
        /\ hist[4].ret = hist[1].ret
        /\ hist[4].via \in {"free", "tree"}
        /\ hist[4].nseg = hist[3].nseg
        /\ hist[4].refused = {}

C12_Witness ==
    /\ Len(hist) = 4 /\ TwoThenFreeFirst
    /\ hist[4].ret = hist[1].ret /\ hist[4].via = "tree"


(* A, B, C, D = alloc(s) four times, one block after the other in memory,  *)
(* then free(B), free(C), alloc(2s)                                        *)
FourFreeTwo ==
    /\ Began(<<"alloc", "alloc", "alloc", "alloc", "free", "free", "alloc">>)
    /\ \A i \in 1..4 : hist[i].ret # NULL /\ hist[i].n = hist[1].n
    /\ \A i \in 1..3 : hist[i + 1].ret = hist[i].ret + RoundReq(hist[1].n) + HEADSIZE
    /\ hist[5].p = hist[2].ret
    /\ hist[6].p = hist[3].ret
    /\ hist[7].n = 2 * hist[1].n

(* what C13 says of alloc(2s) *)
ServedByMerge ==
    /\ hist[7].ret = hist[2].ret
    /\ hist[7].via = "tree"
    /\ hist[7].nseg = hist[6].nseg
    /\ hist[7].refused = {}

(* the logged address-check of the body address B had *)
AskedOfB == Len(hist) >= 8 /\ hist[8].name = "addr" /\ hist[8].p = hist[2].ret

EverySecondFreed ==
    /\ Began(<<"alloc", "alloc", "alloc", "alloc", "free", "free", "alloc">>)
    /\ \A i \in 1..4 : hist[i].ret # NULL /\ hist[i].n = hist[1].n
    /\ RoundReq(hist[1].n) = BODYSIZE
    /\ {hist[5].p, hist[6].p} \in {{hist[1].ret, hist[3].ret}, {hist[2].ret, hist[4].ret}}
    /\ hist[7].n = hist[1].n

(* C14 as stated: that alloc is served from a tiny list, not from the      *)
(* tree, the wilderness or a new segment.                                  *)
C14_NotFromTree ==
    EverySecondFreed =>
        /\ hist[7].ret # NULL
        /\ hist[7].via \notin {"tree", "wild", "extend"}

(* C14: after several blocks of the smallest size alloc makes (BODYSIZE)   *)
(* were allocated and every second one freed, a further alloc of that size *)
(* is served by one of the freed blocks, which the reclaim pass has put on *)
(* the free tree and bestsearch takes from it; no tiny list, wilderness or *)
(* new segment is used, the tiny lists stay empty, and the region is sound *)
(* afterwards.                                                             *)
C14_ServedFromTree ==
    EverySecondFreed =>
        /\ hist[7].ret \in {hist[5].p, hist[6].p}
        /\ hist[7].via = "tree"
        /\ hist[7].nseg = hist[6].nseg
        /\ hist[7].refused = {}
        /\ \A i \in DOMAIN tiny : tiny[i] = NULL
        /\ Len(hist) = 7 => RegionOK

C14_Witness ==
    /\ Len(hist) = 7 /\ EverySecondFreed
    /\ hist[7].via = "tree" /\ FreeHomes(St) # << >>


(* the sentinel of each segment, and the block that follows b in memory *)
Sentinels(S) == { S.seg[i].baddr - HEADSIZE : i \in 1..Len(S.seg) }
After(S, b) == DATA(b) + CLRBITS(SIZE(S, b))
IsFree(S, b) == ~ISBUSY(SIZE(S, b))

(* C15: between operations every block whose BUSY bit is clear has JUNK    *)
(* and PFREE clear and holds its own address in the last word of its body; *)
(* no block, sentinel or list member has JUNK without BUSY.                *)
C15_FreeBlockTags ==
    /\ \A b \in Blocks(St) :
          IsFree(St, b) => BITSOF(SIZE(St, b)) = 0 /\ SELF(St, b) = b
    /\ \A b \in Blocks(St) \cup Sentinels(St) \cup Held(St) :
          ISJUNK(SIZE(St, b)) => ISBUSY(SIZE(St, b))

C15_Witness ==
    /\ \E b \in Blocks(St) : IsFree(St, b) /\ b # wild
    /\ \E b \in Blocks(St) : ISJUNK(SIZE(St, b))

(* C16: between operations, for every block B and the block N after it in *)
(* its segment (the sentinel after the last block): N has PFREE exactly    *)
(* when B is free, and then N is BUSY and LAST(N) is B.                    *)
C16_PfreeTellsFree ==
    \A b \in Blocks(St) :
        /\ ISPFREE(SIZE(St, After(St, b))) <=> IsFree(St, b)
        /\ IsFree(St, b) =>
              /\ ISBUSY(SIZE(St, After(St, b)))
              /\ LAST(St, After(St, b)) = b

C16_Witness ==
    \E b \in Blocks(St) :
        /\ IsFree(St, b)
        /\ DATA(After(St, b)) \in DOMAIN owned
        /\ \E a \in Blocks(St) : After(St, a) = b /\ ISBUSY(SIZE(St, a))

(* C17: every free block a walk of the segments finds is reached from     *)
(* exactly one of the wilderness slot, a tiny list and the free tree with  *)
(* its equal-size chains; every block reached from those is a free block   *)
(* of a segment; no block is held twice among the tree, the tiny lists,    *)
(* the wilderness slot, the cache lists and the last-freed slot.           *)
C17_OneFreeHome ==
    /\ \A b \in Blocks(St) : IsFree(St, b) => Count(FreeHomes(St), b) = 1
    /\ \A b \in Range(FreeHomes(St)) : b \in Blocks(St) /\ IsFree(St, b)
    /\ \A b \in Held(St) : Count(FreeHomes(St) \o JunkHomes(St), b) = 1

C17_Witness == root # NULL /\ wild # NULL /\ JunkHomes(St) # << >>

(* C18: a block carries JUNK exactly when it is held, once, in the         *)
(* last-freed slot or on a cache list; every block held there is a block   *)
(* of a segment with BUSY and JUNK set and a size that is a multiple of    *)
(* the granule and at least BODYSIZE; a block on a cache list is in the    *)
(* bucket C_INDEX of its size or in the catch-all bucket S_CACHE.          *)
C18_JunkOnceCached ==
    /\ \A b \in Blocks(St) :
          Count(JunkHomes(St), b) = IF ISJUNK(SIZE(St, b)) THEN 1 ELSE 0
    /\ \A b \in Range(JunkHomes(St)) :
          /\ b \in Blocks(St)
          /\ ISBUSY(SIZE(St, b)) /\ ISJUNK(SIZE(St, b))
          /\ CLRBITS(SIZE(St, b)) >= BODYSIZE
          /\ CLRBITS(SIZE(St, b)) % ALIGN = 0
    /\ \A i \in DOMAIN cache :
          \A b \in Range(ListSeq(St, cache[i], MaxBlocks + 1)) :
              i \in {C_INDEX(SIZE(St, b)), S_CACHE}

C18_Witness ==
    /\ free # NULL
    /\ \E i \in 0..(S_CACHE - 1) : cache[i] # NULL

(* the nodes of the tree below r, the chains left out *)
RECURSIVE TreeNodes(_, _, _)
TreeNodes(S, r, fuel) ==
    IF r = NULL \/ fuel = 0 \/ ~InMem(r) THEN {}
    ELSE {r} \cup TreeNodes(S, LEFT(S, r), fuel - 1)
             \cup TreeNodes(S, RIGHT(S, r), fuel - 1)

Below(S, r) == TreeNodes(S, r, MaxBlocks + 1)

TreeOK(S) ==
    /\ \A n \in Below(S, S.root) :
          /\ \A m \in Below(S, LEFT(S, n)) : SIZE(S, m) < SIZE(S, n)
          /\ \A m \in Below(S, RIGHT(S, n)) : SIZE(S, m) > SIZE(S, n)
          /\ \A c \in Range(ListSeq(S, n, MaxBlocks + 1)) : SIZE(S, c) = SIZE(S, n)
    /\ \A n, m \in Below(S, S.root) : n # m => SIZE(S, n) # SIZE(S, m)

(* the sizes bestsearch is asked for *)
SearchSizes == { k * ALIGN : k \in 2..8 }

RECURSIVE Span(_, _, _, _)
Span(S, b, endb, fuel) ==
    IF b >= endb \/ fuel = 0 THEN 0
    ELSE HEADSIZE + CLRBITS(SIZE(S, b)) + Span(S, After(S, b), endb, fuel - 1)

RECURSIVE Total(_, _)
Total(S, i) ==
    IF i > Len(S.seg) THEN 0
    ELSE S.seg[i].extent - SEGHEAD - HEADSIZE + Total(S, i + 1)

RECURSIVE Spans(_, _)
Spans(S, i) ==
    IF i > Len(S.seg) THEN 0
    ELSE Span(S, SEGBLOCK(S.seg[i]), S.seg[i].baddr - HEADSIZE, NWORDS) + Spans(S, i + 1)

(* C20: the blocks of each segment tile it: the walk from the first block  *)
(* by header plus size lands on the sentinel, whose size is 0 and which is *)
(* BUSY, and the headers and bodies add up to what the segments hold; so   *)
(* too after resize has grown a segment in place.                          *)
C20_BlocksTile ==
    /\ \A i \in 1..Len(seg) :
          /\ seg[i].baddr = seg[i].addr + seg[i].extent
          /\ WalkEnd(St, SEGBLOCK(seg[i]), seg[i].baddr - HEADSIZE, NWORDS)
                = seg[i].baddr - HEADSIZE
          /\ CLRBITS(SIZE(St, seg[i].baddr - HEADSIZE)) = 0
          /\ ISBUSY(SIZE(St, seg[i].baddr - HEADSIZE))
          /\ Span(St, SEGBLOCK(seg[i]), seg[i].baddr - HEADSIZE, NWORDS)
                = seg[i].extent - SEGHEAD - HEADSIZE
    /\ Spans(St, 1) = Total(St, 1)

C20_Witness ==
    /\ op.name = "resize" /\ op.via = "grow" /\ op.ret = op.p
    /\ BodySize(St, op.ret) > op.oldz
    /\ Cardinality(Blocks(St)) >= 2


(* the junk blocks of the segments, and the free block of S that holds the *)
(* address b                                                               *)
JunkBlocks(S) == { b \in Blocks(S) : ISJUNK(SIZE(S, b)) }
FreeAround(S, b) ==
    { f \in Blocks(S) : IsFree(S, f) /\ f <= b /\ b < After(S, f) }

(* what reclaim(nil, c) leaves of the region S *)
ReclaimedOK(S, R, c) ==
    /\ R.free = NULL
    /\ \A n \in c..S_CACHE : R.cache[n] = NULL
    /\ \A n \in 0..S_CACHE : R.cache[n] \in {NULL, S.cache[n]}
    /\ \A n \in 0..S_CACHE : R.scan[n] <= 1
    /\ \A b \in JunkBlocks(S) :
          \/ b \in JunkBlocks(R) /\ C_INDEX(SIZE(S, b)) < c
          \/ Cardinality(FreeAround(R, b)) = 1
    /\ HeapOK(R, DOMAIN owned)

(* C21: when reclaim(nil, c) returns, with 1, the last-freed slot is empty *)
(* and every cache bucket from S_CACHE down to c is empty; a lower bucket  *)
(* is either as it was or, touched by a forward merge, empty; no cache     *)
(* list is detached more than once; a block that was junk is still junk on *)
(* a lower bucket or lies in one free block, and the region is sound with  *)
(* every free block coalesced; after reclaim(nil, 0) no block is junk.     *)
C21_ReclaimEmptiesCache ==
    /\ \A c \in 0..S_CACHE :
          /\ bestreclaim(St, NULL, c).saw
          /\ ReclaimedOK(St, bestreclaim(St, NULL, c).S, c)
    /\ JunkBlocks(bestreclaim(St, NULL, 0).S) = {}

(* a forward merge takes a junk block of a bucket below c *)
C21_Witness ==
    \E c \in 1..S_CACHE : \E n \in 0..(c - 1) :
        /\ cache[n] # NULL
        /\ bestreclaim(St, NULL, c).S.cache[n] = NULL
        /\ Cardinality(JunkBlocks(St)) >= 2

(* the bodies in callers' hands whose block is followed by a junk block    *)
(* that is not the last-freed one: those resize reclaims as wanted         *)
JunkNext(S) ==
    { d \in DOMAIN owned : /\ ISJUNK(SIZE(S, After(S, BLOCK(d))))
                           /\ After(S, BLOCK(d)) # S.free }

WantedOK(S, np, r) ==
    /\ r.saw /\ r.S.met = 1 /\ ~r.S.fault
    /\ BITSOF(SIZE(r.S, np)) = 0
    /\ SIZE(r.S, np) >= CLRBITS(SIZE(S, np))
    /\ SELF(r.S, np) = np
    /\ np \notin Held(r.S)
    /\ ISBUSY(SIZE(r.S, After(r.S, np)))
    /\ ~ISJUNK(SIZE(r.S, After(r.S, np)))
    /\ ISPFREE(SIZE(r.S, After(r.S, np)))
    /\ Held(r.S) \subseteq Blocks(r.S) \ {np}

(* C22: when the block after the one resize grows is junk, the pass        *)
(* reclaim(wanted = that block, c = C_INDEX(its size)) meets the block     *)
(* once and returns 1; the block is then merged with every free or junk    *)
(* block that followed it, carries no tag bit and is in no tree, tiny      *)
(* list, wilderness slot or cache list; no operation ends with the         *)
(* did-not-see fault, and each such pass of a resize met its block once.   *)
C22_WantedSeenOnce ==
    /\ ~fault
    /\ op.met = op.want
    /\ \A d \in JunkNext(St) :
          WantedOK(St, After(St, BLOCK(d)),
                   bestreclaim(St, After(St, BLOCK(d)),
                               C_INDEX(SIZE(St, After(St, BLOCK(d))))))

C22_Witness ==
    /\ op.name = "resize" /\ op.p # NULL /\ op.ret = op.p
    /\ op.want >= 1 /\ op.met >= 1

(* the wilderness slot is empty or holds the free block that ends at the   *)
(* sentinel of the segment vd->seg                                         *)
WildOK(S) ==
    S.wild # NULL =>
        /\ Len(S.seg) >= 1
        /\ S.wild \in SegBlocks(S, 1)
        /\ SEG(S, S.wild) = S.seg[1].addr
        /\ BITSOF(SIZE(S, S.wild)) = 0
        /\ After(S, S.wild) = S.seg[1].baddr - HEADSIZE
        /\ \A i \in 2..Len(S.seg) : S.wild \notin SegBlocks(S, i)

(* C23: after every operation, in regions of one segment or several, a     *)
(* non-nil wilderness slot holds a block without tag bits that belongs to  *)
(* the first segment and whose next block is that segment's sentinel; no   *)
(* store into the slot during the operation replaced a different block     *)
(* that was still held there.                                              *)
C23_WildEndsFirstSegment == WildOK(St) /\ ~op.clob

C23_Witness == wild # NULL /\ Len(seg) >= 2 /\ op.wput >= 1

(* every block of the tree, the chains included *)
TreeAll(S) == Range(TreeSeq(S, S.root, MaxBlocks + 1))

(* r is what bestsearch(size, NULL) made of the tree of S *)
SearchOK(S, size, r) ==
    LET all == TreeAll(S)
        cand == { b \in all : SIZE(S, b) >= size }
    IN  /\ ~r.S.fault
        /\ TreeOK(r.S)
        /\ IF cand = {} THEN r.root = NULL /\ TreeAll(r.S) = all
           ELSE /\ r.root \in Below(S, S.root)
                /\ SIZE(r.S, r.root) = SIZE(S, r.root)
                /\ SIZE(S, r.root) >= size
                /\ \A b \in cand : SIZE(S, r.root) <= SIZE(S, b)
                /\ TreeAll(r.S) = all \ {r.root}
                /\ Len(TreeSeq(r.S, r.S.root, MaxBlocks + 1)) = Cardinality(all) - 1
                /\ LINK(S, r.root) # NULL =>
                      /\ LINK(S, r.root) \in Below(r.S, r.S.root)
                      /\ Below(r.S, r.S.root)
                            = (Below(S, S.root) \ {r.root}) \cup {LINK(S, r.root)}
                /\ LINK(S, r.root) = NULL =>
                      Below(r.S, r.S.root) = Below(S, S.root) \ {r.root}

(* r is what bestsearch(SIZE(w), w) made of the tree of S, w a node of it *)
WantedFound(S, w, r) ==
    /\ ~r.S.fault
    /\ r.root = w
    /\ TreeOK(r.S)
    /\ TreeAll(r.S) = TreeAll(S) \ {w}
    /\ Len(TreeSeq(r.S, r.S.root, MaxBlocks + 1)) = Cardinality(TreeAll(S)) - 1

(* C24: on a tree that is not empty, bestsearch(size, NULL) returns a node *)
(* of the smallest size that is at least size (of exactly size when there  *)
(* is one), or NULL when every block is smaller; the tree then holds the   *)
(* other blocks and no more, each once, the next block of the chain being  *)
(* a node in place of a returned chain head; bestsearch(SIZE(w), w) for a  *)
(* node w returns w.                                                       *)
C24_BestFit ==
    root # NULL =>
        /\ \A z \in SearchSizes : SearchOK(St, z, bestsearch(St, z, NULL))
        /\ \A w \in Below(St, root) : WantedFound(St, w, bestsearch(St, SIZE(St, w), w))

C24_Witness ==
    /\ Cardinality(Below(St, root)) >= 3
    /\ \E z \in SearchSizes : bestsearch(St, z, NULL).root = NULL
    /\ \E z \in SearchSizes :
          /\ bestsearch(St, z, NULL).root \notin {NULL, root}
          /\ Cardinality(Below(bestsearch(St, z, NULL).S, bestsearch(St, z, NULL).S.root)) = 2

(* the steps of bestalloc between its entry and its call of the compactor: *)
(* the last-freed block, if any, was set aside, every cache list was       *)
(* reclaimed from the catch-all one down to 0 with a tree search (or an    *)
(* empty tree) after each, and the wilderness was absent or too small      *)
Policy(q) ==
    /\ SelectSeq(q, LAMBDA x : x.e \in {"reclaim", "nowild"})
          = [k \in 1..(S_CACHE + 1) |-> [e |-> "reclaim", n |-> S_CACHE + 1 - k]]
               \o << [e |-> "nowild", n |-> 0] >>
    /\ \A k \in 1..Len(q) :
          /\ q[k].e \in {"last", "reclaim", "search", "empty", "nowild"}
          /\ q[k].e = "last" => k = 1
          /\ q[k].e = "nowild" => k = Len(q)
          /\ q[k].e = "reclaim" =>
                k < Len(q) /\ q[k + 1].e \in {"search", "empty"} /\ q[k + 1].n = q[k].n
          /\ q[k].e \in {"search", "empty"} => k > 1 /\ q[k - 1].e = "reclaim"

Steps(e) == { j \in 1..Len(op.ev) : op.ev[j].e = e }

(* C25: an operation whose bestalloc calls the compactor or asks for a new *)
(* segment has done so only after setting the last-freed block aside,      *)
(* reclaiming every cache list from S_CACHE down to 0 with a tree search   *)
(* after each and finding the wilderness absent or smaller than the        *)
(* rounded size; the compactor comes before the extension; and neither is  *)
(* called while the tree or the wilderness holds a block of at least the   *)
(* rounded size.                                                           *)
C25_ExtendLast ==
    /\ ~op.rich
    /\ \A j \in Steps("compact") :
          \E i \in Steps("alloc") : i < j /\ Policy(SubSeq(op.ev, i + 1, j - 1))
    /\ \A j \in Steps("extend") :
          \E i \in Steps("compact") :
              /\ i < j
              /\ \A k \in (i + 1)..(j - 1) : op.ev[k].e = "reclaim"

C25_Witness ==
    /\ Steps("extend") # {} /\ Steps("search") # {}
    /\ op.name = "alloc" /\ op.ret # NULL

(* the blocks from b on that are free or junk, up to the first busy one *)
RECURSIVE Run(_, _, _)
Run(S, b, fuel) ==
    IF fuel = 0 \/ ~InMem(b) \/ (ISBUSY(SIZE(S, b)) /\ ~ISJUNK(SIZE(S, b))) THEN {}
    ELSE {b} \cup Run(S, After(S, b), fuel - 1)

(* header and body of those of them that lie below lim, added up *)
RECURSIVE RunSize(_, _, _, _)
RunSize(S, b, lim, fuel) ==
    IF fuel = 0 \/ ~InMem(b) \/ b >= lim \/ (ISBUSY(SIZE(S, b)) /\ ~ISJUNK(SIZE(S, b)))
    THEN 0
    ELSE HEADSIZE + CLRBITS(SIZE(S, b)) + RunSize(S, After(S, b), lim, fuel - 1)

(* the blocks the merge loop of the resize took, in op.ev *)
Absorbed(o) == { o.ev[j].n : j \in { k \in 1..Len(o.ev) : o.ev[k].e = "absorb" } }

(* o is a resize of the body o.p to more than its size *)
Grows(o) == o.name = "resize" /\ o.p # NULL /\ RoundReq(o.n) > o.oldz

(* S is the region before the resize o, R the region after it *)
GrewOK(S, R, o) ==
    LET rp == BLOCK(o.p)
        size == RoundReq(o.n)
        first == DATA(rp) + o.oldz
        run == Run(S, first, NWORDS)
        total == o.oldz + RunSize(S, first, NWORDS * PTR, NWORDS)
    IN  /\ Absorbed(o) \subseteq run
        /\ run # {} => first \in Absorbed(o)
        /\ \A a \in Absorbed(o) :
              /\ \A b \in run : b < a => b \in Absorbed(o)
              /\ o.oldz + RunSize(S, first, a, NWORDS) < size
              /\ a \notin Held(R) /\ a \notin Blocks(R)
        /\ total >= size =>
              /\ o.ret = o.p
              /\ BodySize(R, o.p) >= size /\ BodySize(R, o.p) >= o.n
              /\ IsBusyBody(R, o.p)
        /\ total < size =>
              /\ \A b \in run : b \notin Held(R) /\ b \notin Blocks(R)
              /\ o.ret = NULL => BodySize(R, o.p) >= total
        /\ o.ret = o.p => BodySize(R, o.p) >= size

(* C26: a resize to a larger size takes the blocks that follow its block   *)
(* in address order, each of them the last-freed block, a junk block or a  *)
(* free block, and takes one only while the block is still smaller than    *)
(* the rounded size; it passes no block over and stops at the first busy   *)
(* block that is not junk.  When the space so gained reaches the size it   *)
(* returns the same body over a block of at least that size, and no block  *)
(* it took is a block of the region afterwards or on the tree, a tiny list, *)
(* a cache list or in the wilderness or last-freed slot.                   *)
C26_GrowAbsorbsNeighbours == [][Grows(op') => GrewOK(St, St', op')]_vars

C26_Witness ==
    /\ Grows(op) /\ op.ret = op.p
    /\ Cardinality(Absorbed(op)) >= 2
    /\ BodySize(St, op.p) >= RoundReq(op.n)

(* b is the last block of its segment *)
EndsSegment(S, b) ==
    \E i \in 1..Len(S.seg) : b \in SegBlocks(S, i) /\ After(S, b) = S.seg[i].baddr - HEADSIZE

(* C27 as stated: when compact returns, no block is left junk on a cache   *)
(* list or in the last-freed slot.                                         *)
C27_CompactLeavesNoJunk ==
    op.name = "compact" => op.ret = 0 /\ JunkHomes(St) = << >>

(* C27: compact returns 0 and makes one reclaim pass, over all the cache   *)
(* lists, before it looks at the segments, and none after: a trailing      *)
(* block it took from its home and did not give back whole to the provider *)
(* is, when compact returns, a junk block at the end of its segment on the *)
(* cache list of its size, and these are the only blocks on the cache      *)
(* lists; the last-freed slot is empty.                                    *)
C27_CompactLeavesJunkCached ==
    op.name = "compact" =>
        /\ op.ret = 0
        /\ Steps("reclaim") = {1} /\ op.ev[1].n = 0
        /\ free = NULL
        /\ \A b \in Range(JunkHomes(St)) :
              /\ ISBUSY(SIZE(St, b)) /\ ISJUNK(SIZE(St, b))
              /\ EndsSegment(St, b)
              /\ b \in Range(ListSeq(St, cache[C_INDEX(SIZE(St, b))], MaxBlocks + 1))
        /\ HeapOK(St, DOMAIN owned)

C27_Witness ==
    /\ op.name = "compact" /\ op.ret = 0
    /\ JunkHomes(St) # << >>
    /\ "shrink" \in op.refused \/ "release" \in op.refused

(* size + 2*(align + sizeof(Head_t)), as bestalign computes it *)
Padded(n, al) == Wrap(RoundReq(n) + 2 * (MULTIPLE(al, ALIGN) + HEADSIZE))

(* C28 as stated: the rounded size of alloc, resize and align is at least  *)
(* the requested size, the padded size of align is at least the size, and  *)
(* a request for more than the address space has returns nil, never a      *)
(* block smaller than requested.                                           *)
C28_SizesNeverWrap ==
    op.name \in {"alloc", "resize", "align"} =>
        /\ RoundReq(op.n) >= op.n
        /\ op.name = "align" => Padded(op.n, op.al) >= RoundReq(op.n)
        /\ op.n > NWORDS * PTR => op.ret = NULL
        /\ op.ret # NULL /\ ~fault => BodySize(St, op.ret) >= op.n

=============================================================================
